---- MODULE Spec2Model ----
(***************************************************************************)
(* A model of Proton (Horneth/proton): the nested-bytes codec of           *)
(* pkg/processor and pkg/engine, the versioned envelope, the structural    *)
(* hasher of pkg/daml/hash and the Canton topology workflow of             *)
(* cmd/proton/cmd_canton.go.                                               *)
(*                                                                         *)
(* Byte strings are sequences of integers 0..127 in the Protobuf wire      *)
(* format; every varint and every length of the model is below 128 and     *)
(* therefore one byte long.  SHA-256 and the signature schemes are         *)
(* modelled symbolically (a digest is the tuple of what was hashed, a      *)
(* signature names its signing key and the signed message).                *)
(***************************************************************************)
EXTENDS Integers, Sequences, FiniteSets, TLC

VARIABLES
    wIn,        \* wrap: the byte string handed to the wrap step
    wVer,       \* wrap: the mapping's default_version
    wOut,       \* wrap: the bytes after the wrap steps applied so far
    wFirst,     \* wrap: the bytes after the first wrap step
    wCount,     \* wrap: number of wrap steps applied
    cCfg,       \* codec: the engine's configuration (nil, or aliases and mappings)
    cType,      \* codec: the message name given to Generate and Decode
    cJson,      \* codec: the input JSON value
    cVer,       \* codec: Generate's versionNum (nil or a number)
    cBin,       \* codec: the result of Generate (bytes) or of compress (JSON)
    cOut,       \* codec: the result of Decode
    cPc,        \* codec: "init", "generated", "compressed", "decoded", "decoded_bytes"
    tPc,        \* topology: the step of the prepare / sign / assemble / verify workflow
    tCfg,       \* topology: the engine's configuration
    tKey,       \* topology: the root key, whose private half signs
    tSerial,    \* topology: the --serial flag of prepare
    tMem,       \* topology: prepare's binaryData (result of Generate)
    tHashMem,   \* topology: prepare's computed hash, <<>> before it is computed
    tPrep,      \* topology: the file <prefix>.prep
    tHash,      \* topology: the file <prefix>.hash
    tSig,       \* topology: the signature file
    tCert,      \* topology: the certificate file (input of verify)
    tTrue,      \* topology: the signed transaction the certificate encodes
    tKeys,      \* topology: the public keys given to verify
    tLoaded,    \* topology: what verify decoded (rawTx, signature entries)
    tIdx,       \* topology: verify's loop index
    tAllValid,  \* topology: verify's allValid
    tExit,      \* topology: exit code of the run that ended last, -1 if none
    hIn,        \* hasher: the PreparedTransaction handed to the hasher
    hOut,       \* hasher: what the call produced (error, panic or hash)
    hPc,        \* hasher: the step of HashPreparedTransaction
    hMaps,      \* hasher: nodesMap and seedsMap
    hTxHash,    \* hasher: txHash
    hMetaHash,  \* hasher: metaHash
    hFirst,     \* hasher: what the first call on hIn produced
    hCalls,     \* hasher: the number of calls on hIn made so far
    rdInput,        \* reader: ReadData's input, the data specifier
    rdIsBase64,     \* reader: ReadData's isBase64
    rdStdin,        \* reader: what reading standard input yields
    rdFs,           \* reader: the files and directories on disk
    rdRaw,          \* reader: rawData
    rdOut,          \* reader: what ReadData returned
    rdPc,           \* reader: "idle", "start", "resolved", "done"
    lfBase,         \* leaf change: a prepared transaction
    lfField,        \* leaf change: the leaf field that is changed
    lfChanged,      \* leaf change: the transaction with the leaf changed
    lfHashBase,     \* leaf change: the hash of lfBase
    lfHashChanged,  \* leaf change: the hash of lfChanged
    lfPc,           \* leaf change: "idle", "start", "base", "done"
    sgMessage,      \* sign/verify: the message
    sgPriv,         \* sign/verify: privateKeyData given to Sign
    sgAlgo,         \* sign/verify: the algorithm name given to Sign
    sgPub,          \* sign/verify: publicKeyData given to VerifySignature
    sgSpec,         \* sign/verify: algoSpec given to VerifySignature
    sgSigned,       \* sign/verify: what Sign returned
    sgSignature,    \* sign/verify: the signature given to VerifySignature
    sgOut,          \* sign/verify: what VerifySignature returned
    sgPc,           \* sign/verify: "idle", "start", "signed", "verified"
    tpSchema,       \* template: the message descriptors, by message name
    tpRoot,         \* template: the message GenerateJSONTemplate is called on
    tpStack,        \* template: the active calls of GenerateJSONTemplate, innermost last
    tpOut,          \* template: the template returned by the outermost call
    tpPc,           \* template: "idle", "running", "returned", "overflow"
    alCfg,          \* alias: the configuration ResolveAlias is called on
    alName,         \* alias: the name given to ResolveAlias
    alOut,          \* alias: what ResolveAlias returned
    alPc,           \* alias: "idle", "start", "done"
    cnOp,           \* cancellation: the engine operation called
    cnPath,         \* cancellation: schemaPath
    cnVersioned,    \* cancellation: Decode's versioned, Generate's versionNum # nil
    cnConfig,       \* cancellation: e.Config # nil
    cnNest,         \* cancellation: the nested fields the processor descends into, outermost first
    cnTodo,         \* cancellation: the schema loads and recursions still ahead
    cnCancelled,    \* cancellation: ctx is cancelled
    cnCrossed,      \* cancellation: a schema load or a recursion went ahead under a cancelled ctx
    cnOut,          \* cancellation: what the operation returned
    cnPc,           \* cancellation: "idle", "running", "done"
    ptData,         \* patch: the JSON object the Set calls work on
    ptPrev,         \* patch: the object before the last Set call
    ptLog,          \* patch: the Set calls made, as path and value
    tiMappings,     \* mapping ties: the mappings of the configuration, as declared
    tiJson,         \* mapping ties: the JSON given to Generate
    tiBin,          \* mapping ties: what Generate returned
    tiOut,          \* mapping ties: what Decode returned
    tiPc,           \* mapping ties: "idle", "init", "generated", "decoded"
    ndTx,           \* node encodings: the DamlTransaction
    ndContract,     \* node encodings: an input contract of the metadata
    ndBefore,       \* node encodings: the transaction and the input contract encoding of the first round
    ndRound,        \* node encodings: 1, or 2 after the transaction was exchanged
    ndMaps,         \* node encodings: nodesMap and seedsMap
    ndEncoded,      \* node encodings: encodeNode of every node, by node id
    ndTxEncoded,    \* node encodings: encodeTransaction's result
    ndInput,        \* node encodings: encodeInputContract's result
    ndPc,           \* node encodings: "idle", "start", "maps", "done"
    exMappings,     \* expansion: the mappings of the configuration
    exType,         \* expansion: the message type the payload is read as
    exContainer,    \* expansion: the payload being expanded
    exTrail,        \* expansion: the length of the first payload and of every nested field value met
    exOut,          \* expansion: what Engine.Decode returned
    exErr,          \* expansion: the walk ended in an error
    exPc,           \* expansion: "idle", "start", "walk", "done", "overflow"
    wkTx,           \* node walk: the transaction
    wkMaps,         \* node walk: nodesMap and seedsMap
    wkStack,        \* node walk: the calls of encodeNode in progress, outermost first
    wkCalls,        \* node walk: the number of calls of encodeNode made for each node id
    wkPc            \* node walk: "idle", "start", "walk", "done", "overflow"

wrapVars == <<wIn, wVer, wOut, wFirst, wCount>>
codecVars == <<cCfg, cType, cJson, cVer, cBin, cOut, cPc>>

topoVars == <<tPc, tCfg, tKey, tSerial, tMem, tHashMem, tPrep, tHash, tSig, tCert,
              tTrue, tKeys, tLoaded, tIdx, tAllValid, tExit>>
hashVars == <<hIn, hOut, hPc, hMaps, hTxHash, hMetaHash, hFirst, hCalls>>

readVars == <<rdInput, rdIsBase64, rdStdin, rdFs, rdRaw, rdOut, rdPc>>
leafVars == <<lfBase, lfField, lfChanged, lfHashBase, lfHashChanged, lfPc>>
signVars == <<sgMessage, sgPriv, sgAlgo, sgPub, sgSpec, sgSigned, sgSignature, sgOut, sgPc>>
templateVars == <<tpSchema, tpRoot, tpStack, tpOut, tpPc>>
aliasVars == <<alCfg, alName, alOut, alPc>>
cancelVars == <<cnOp, cnPath, cnVersioned, cnConfig, cnNest, cnTodo, cnCancelled,
                cnCrossed, cnOut, cnPc>>
patchVars == <<ptData, ptPrev, ptLog>>
tieVars == <<tiMappings, tiJson, tiBin, tiOut, tiPc>>
nodeVars == <<ndTx, ndContract, ndBefore, ndRound, ndMaps, ndEncoded, ndTxEncoded, ndInput,
              ndPc>>
expandVars == <<exMappings, exType, exContainer, exTrail, exOut, exErr, exPc>>
walkVars == <<wkTx, wkMaps, wkStack, wkCalls, wkPc>>

auxVars == <<readVars, leafVars, signVars, templateVars, aliasVars, cancelVars, patchVars,
             tieVars, nodeVars, expandVars, walkVars>>
vars == <<wrapVars, codecVars, topoVars, hashVars, auxVars>>

\* For each later specification, the variables of all the others.
notReadVars == <<wrapVars, codecVars, topoVars, hashVars, leafVars, signVars, templateVars,
                 aliasVars, cancelVars, patchVars, tieVars, nodeVars, expandVars, walkVars>>
notLeafVars == <<wrapVars, codecVars, topoVars, hashVars, readVars, signVars, templateVars,
                 aliasVars, cancelVars, patchVars, tieVars, nodeVars, expandVars, walkVars>>
notSignVars == <<wrapVars, codecVars, topoVars, hashVars, readVars, leafVars, templateVars,
                 aliasVars, cancelVars, patchVars, tieVars, nodeVars, expandVars, walkVars>>
notTemplateVars == <<wrapVars, codecVars, topoVars, hashVars, readVars, leafVars, signVars,
                     aliasVars, cancelVars, patchVars, tieVars, nodeVars, expandVars,
                     walkVars>>
notAliasVars == <<wrapVars, codecVars, topoVars, hashVars, readVars, leafVars, signVars,
                  templateVars, cancelVars, patchVars, tieVars, nodeVars, expandVars,
                  walkVars>>
notCancelVars == <<wrapVars, codecVars, topoVars, hashVars, readVars, leafVars, signVars,
                   templateVars, aliasVars, patchVars, tieVars, nodeVars, expandVars,
                   walkVars>>
notPatchVars == <<wrapVars, codecVars, topoVars, hashVars, readVars, leafVars, signVars,
                  templateVars, aliasVars, cancelVars, tieVars, nodeVars, expandVars,
                  walkVars>>
notTieVars == <<wrapVars, codecVars, topoVars, hashVars, readVars, leafVars, signVars,
                templateVars, aliasVars, cancelVars, patchVars, nodeVars, expandVars,
                walkVars>>
notNodeVars == <<wrapVars, codecVars, topoVars, hashVars, readVars, leafVars, signVars,
                 templateVars, aliasVars, cancelVars, patchVars, tieVars, expandVars,
                 walkVars>>
notExpandVars == <<wrapVars, codecVars, topoVars, hashVars, readVars, leafVars, signVars,
                   templateVars, aliasVars, cancelVars, patchVars, tieVars, nodeVars,
                   walkVars>>
notWalkVars == <<wrapVars, codecVars, topoVars, hashVars, readVars, leafVars, signVars,
                 templateVars, aliasVars, cancelVars, patchVars, tieVars, nodeVars,
                 expandVars>>

-----------------------------------------------------------------------------
(* Bounds of the model *)

\* longest byte string handed to the wrap step
MaxWrapLen == 3
\* most mappings a configuration declares
MaxMappings == 1

-----------------------------------------------------------------------------
(* Protobuf wire format (google.golang.org/protobuf, as called by the code) *)

Tag(num, wt) == num * 8 + wt
FieldNum(tag) == tag \div 8
WireType(tag) == tag % 8

\* wire type 0 is a varint, wire type 2 a length-delimited payload
IsVarint(wt) == wt = 0
IsBytes(wt) == wt = 2

BadParse == [ok |-> FALSE, fields |-> <<>>]

\* Number of bytes the field at the head of bs occupies, 0 when malformed.
\* Wire types 1 and 5 are fixed width; groups (3, 4) and the undefined wire
\* types 6 and 7 are rejected.
FieldSize(bs) ==
    LET tag == Head(bs)
        wt == WireType(tag)
    IN  IF FieldNum(tag) = 0 THEN 0
        ELSE IF IsVarint(wt) THEN (IF Len(bs) >= 2 THEN 2 ELSE 0)
        ELSE IF wt = 1 THEN (IF Len(bs) >= 9 THEN 9 ELSE 0)
        ELSE IF wt = 5 THEN (IF Len(bs) >= 5 THEN 5 ELSE 0)
        ELSE IF IsBytes(wt)
             THEN (IF Len(bs) >= 2 /\ Len(bs) >= 2 + bs[2] THEN 2 + bs[2] ELSE 0)
        ELSE 0

\* One parsed field: its number, wire type, varint value n and payload b.
FieldOf(bs, size) ==
    LET tag == Head(bs)
    IN  [num |-> FieldNum(tag), wt |-> WireType(tag),
         n |-> IF IsVarint(WireType(tag)) THEN bs[2] ELSE 0,
         b |-> IF IsBytes(WireType(tag)) THEN SubSeq(bs, 3, size) ELSE <<>>]

RECURSIVE ParseFields(_)
\* proto.Unmarshal's scan of a buffer into its fields; ok = FALSE on a
\* malformed buffer.
ParseFields(bs) ==
    IF bs = <<>> THEN [ok |-> TRUE, fields |-> <<>>]
    ELSE LET size == FieldSize(bs)
         IN  IF size = 0 THEN BadParse
             ELSE LET rest == ParseFields(SubSeq(bs, size + 1, Len(bs)))
                  IN  IF rest.ok
                      THEN [ok |-> TRUE, fields |-> <<FieldOf(bs, size)>> \o rest.fields]
                      ELSE BadParse

\* The last occurrence of field num with wire type wt (last one wins); a
\* known field met with another wire type is an unknown field.
RECURSIVE LastField(_, _, _, _)
LastField(fields, num, wt, default) ==
    IF fields = <<>> THEN default
    ELSE LET f == fields[Len(fields)]
         IN  IF f.num = num /\ f.wt = wt THEN f
             ELSE LastField(SubSeq(fields, 1, Len(fields) - 1), num, wt, default)

NoField == [num |-> 0, wt |-> 0, n |-> 0, b |-> <<>>]

PutVarint(num, n) == IF n = 0 THEN <<>> ELSE <<Tag(num, 0), n>>
PutBytes(num, b) == IF b = <<>> THEN <<>> ELSE <<Tag(num, 2), Len(b)>> \o b

-----------------------------------------------------------------------------
(* The versioned envelope UntypedVersionedMessage {data = 1; version = 2} *)

\* proto.Unmarshal(bytes, wrapper) followed by reading the data field.
UnmarshalWrapper(bs) ==
    LET p == ParseFields(bs)
    IN  [ok |-> p.ok,
         data |-> IF p.ok THEN LastField(p.fields, 1, 2, NoField).b ELSE <<>>,
         version |-> IF p.ok THEN LastField(p.fields, 2, 0, NoField).n ELSE 0]

\* proto.Marshal of a wrapper with data and version set.
MarshalWrapper(data, version) == PutBytes(1, data) \o PutVarint(2, version)

\* compressBytes step 3: the already-wrapped test.
AlreadyWrapped(bs) ==
    LET w == UnmarshalWrapper(bs)
    IN  w.ok /\ Len(w.data) > 0

\* Variant of the wrap step without the already-wrapped test.
WrapAlways(bs, version) == MarshalWrapper(bs, version)

\* compressBytes step 3: wrap unless already wrapped.
WrapVersioned(bs, version) ==
    IF AlreadyWrapped(bs) THEN bs ELSE MarshalWrapper(bs, version)

-----------------------------------------------------------------------------
(* Results: a value or an error kind *)

Ok(v) == [ok |-> TRUE, err |-> "none", v |-> v]
Fail(e) == [ok |-> FALSE, err |-> e, v |-> <<>>]

-----------------------------------------------------------------------------
(* Generic JSON values (encoding/json's interface{}): objects, numbers and
   strings.  A string of a bytes field is the standard base64 text of bytes
   b; "raw" is a Go []byte handed in by a caller of the library. *)

EmptyObj == [x \in {} |-> 0]
Obj(o) == [k |-> "obj", o |-> o]
Num(n) == [k |-> "num", n |-> n]
Str(b) == [k |-> "str", b |-> b]
Raw(b) == [k |-> "raw", b |-> b]
\* a string that is not base64 text
Txt == [k |-> "txt"]

\* base64.StdEncoding.EncodeToString / DecodeString
B64Encode(b) == Str(b)
B64Decode(val) == IF val.k = "str" THEN Ok(val.b) ELSE Fail("base64")

Without(o, name) == [x \in (DOMAIN o) \ {name} |-> o[x]]
With(o, name, val) == (name :> val) @@ Without(o, name)

-----------------------------------------------------------------------------
(* The schema registry of the model: three messages shaped like the Canton
   image's SignedTopologyTransaction (Signed), TopologyTransaction (Topo)
   and TopologyMapping (Map).  Kind "int" stands for the varint scalars
   (uint32, bool, enum).  No field is repeated. *)

Files == {"Signed", "Topo", "Map"}

FD(name, num, kind, msg) == [name |-> name, num |-> num, kind |-> kind, msg |-> msg]

Desc(type) ==
    CASE type = "Signed" -> <<FD("transaction", 1, "bytes", ""), FD("proposal", 3, "int", "")>>
      [] type = "Topo" -> <<FD("operation", 1, "int", ""), FD("serial", 2, "int", ""),
                            FD("mapping", 3, "message", "Map")>>
      [] type = "Map" -> <<FD("namespace", 1, "bytes", "")>>
      [] OTHER -> <<>>

\* loader.FindMessage: the descriptor, or nil.
FindMessage(files, name) == name \in files

FieldNames(type) == {Desc(type)[i].name : i \in 1..Len(Desc(type))}

-----------------------------------------------------------------------------
(* Dynamic message layer: JSON <-> wire bytes under a descriptor *)

RECURSIVE MarshalJSON(_, _), EncodeFields(_, _, _)

\* protojson.Unmarshal(json, msg) followed by proto.Marshal(msg).
MarshalJSON(type, j) ==
    IF j.k # "obj" THEN Fail("json")
    ELSE IF ~((DOMAIN j.o) \subseteq FieldNames(type)) THEN Fail("json")
    ELSE EncodeFields(type, j.o, 1)

EncodeFields(type, o, i) ==
    IF i > Len(Desc(type)) THEN Ok(<<>>)
    ELSE LET fd == Desc(type)[i]
             val == o[fd.name]
             this ==
                 IF fd.name \notin DOMAIN o THEN Ok(<<>>)
                 ELSE IF fd.kind = "int"
                      THEN (IF val.k = "num" THEN Ok(PutVarint(fd.num, val.n)) ELSE Fail("json"))
                 ELSE IF fd.kind = "bytes"
                      THEN (IF val.k = "str" THEN Ok(PutBytes(fd.num, val.b)) ELSE Fail("json"))
                 ELSE IF val.k = "obj"
                      THEN LET inner == MarshalJSON(fd.msg, val)
                           IN  IF inner.ok
                               THEN Ok(<<Tag(fd.num, 2), Len(inner.v)>> \o inner.v)
                               ELSE inner
                 ELSE Fail("json")
             rest == EncodeFields(type, o, i + 1)
         IN  IF ~this.ok THEN this
             ELSE IF ~rest.ok THEN rest
             ELSE Ok(this.v \o rest.v)

\* Whether field num occurs length-delimited, and its merged payload
\* (occurrences of an embedded message are merged).
HasField(fields, num) == \E i \in 1..Len(fields) : fields[i].num = num /\ IsBytes(fields[i].wt)

RECURSIVE MergedPayload(_, _)
MergedPayload(fields, num) ==
    IF fields = <<>> THEN <<>>
    ELSE (IF Head(fields).num = num /\ IsBytes(Head(fields).wt) THEN Head(fields).b ELSE <<>>)
         \o MergedPayload(Tail(fields), num)

RECURSIVE UnmarshalJSON(_, _), DecodeFields(_, _, _)

\* proto.Unmarshal(bytes, msg) followed by protojson.Marshal(msg) and
\* json.Unmarshal: the JSON object of the populated fields.
UnmarshalJSON(type, bs) ==
    LET p == ParseFields(bs)
    IN  IF ~p.ok THEN Fail("unmarshal") ELSE DecodeFields(type, p.fields, 1)

DecodeFields(type, fields, i) ==
    IF i > Len(Desc(type)) THEN Ok(Obj(EmptyObj))
    ELSE LET fd == Desc(type)[i]
             rest == DecodeFields(type, fields, i + 1)
             n == LastField(fields, fd.num, 0, NoField).n
             b == LastField(fields, fd.num, 2, NoField).b
             inner == UnmarshalJSON(fd.msg, MergedPayload(fields, fd.num))
         IN  IF ~rest.ok THEN rest
             ELSE IF fd.kind = "int"
                  THEN (IF n = 0 THEN rest ELSE Ok(Obj(With(rest.v.o, fd.name, Num(n)))))
             ELSE IF fd.kind = "bytes"
                  THEN (IF b = <<>> THEN rest ELSE Ok(Obj(With(rest.v.o, fd.name, B64Encode(b)))))
             ELSE IF ~HasField(fields, fd.num) THEN rest
             ELSE IF ~inner.ok THEN inner
             ELSE Ok(Obj(With(rest.v.o, fd.name, inner.v)))

-----------------------------------------------------------------------------
(* Configuration (pkg/config): aliases and nesting mappings *)

Mapping(type, field, target, versioned, version) ==
    [type |-> type, field |-> field, target |-> target,
     versioned |-> versioned, version |-> version]

NoMapping == Mapping("", "", "", FALSE, 0)
HasMapping(m) == m.type # ""

\* ResolveAlias without the found test of the lookup: an absent name yields
\* the zero value of the map's value type.
ResolveAliasNoFoundTest(cfg, name) ==
    IF cfg.nil THEN name
    ELSE IF name \in DOMAIN cfg.aliases THEN cfg.aliases[name]
    ELSE ""

\* Config.ResolveAlias
ResolveAlias(cfg, name) ==
    IF cfg.nil THEN name
    ELSE IF name \in DOMAIN cfg.aliases THEN cfg.aliases[name]
    ELSE name

\* The mapping loop without its break: the last mapping declared for
\* (type, field).
FindMappingLast(mappings, type, field) ==
    LET idx == {i \in 1..Len(mappings) :
                    mappings[i].type = type /\ mappings[i].field = field}
    IN  IF idx = {} THEN NoMapping
        ELSE mappings[CHOOSE i \in idx : \A j \in idx : j <= i]

\* The mapping loop of expandMap and CompressRecursively: the first mapping
\* declared for (type, field).
FindMapping(mappings, type, field) ==
    LET idx == {i \in 1..Len(mappings) :
                    mappings[i].type = type /\ mappings[i].field = field}
    IN  IF idx = {} THEN NoMapping
        ELSE mappings[CHOOSE i \in idx : \A j \in idx : i <= j]

-----------------------------------------------------------------------------
(* Nesting engine (pkg/processor) *)

IsString(val) == val.k \in {"str", "txt"}

RECURSIVE ExpandMap(_, _, _, _), ExpandBytes(_, _, _)

\* Processor.expandMap, from field index i on, over the object o.
ExpandMap(ms, type, o, i) ==
    IF i > Len(Desc(type)) THEN Ok(Obj(o))
    ELSE LET fd == Desc(type)[i]
             val == o[fd.name]
             mapped == FindMapping(ms, type, fd.name)
             decoded == B64Decode(val)
             expanded == ExpandBytes(ms, decoded.v, mapped)
             sub == ExpandMap(ms, fd.msg, val.o, 1)
         IN  IF fd.name \notin DOMAIN o THEN ExpandMap(ms, type, o, i + 1)
             ELSE IF HasMapping(mapped) /\ fd.kind = "bytes"
                  THEN (IF ~IsString(val) THEN ExpandMap(ms, type, o, i + 1)
                        ELSE IF ~decoded.ok THEN decoded
                        ELSE IF ~expanded.ok THEN expanded
                        ELSE ExpandMap(ms, type, With(o, fd.name, expanded.v), i + 1))
             ELSE IF fd.kind = "message" /\ val.k = "obj"
                  THEN (IF ~sub.ok THEN sub
                        ELSE ExpandMap(ms, type, With(o, fd.name, sub.v), i + 1))
             ELSE ExpandMap(ms, type, o, i + 1)

\* Processor.expandBytes followed by ExpandRecursively on the decoded target.
ExpandBytes(ms, data, m) ==
    LET w == UnmarshalWrapper(data)
        binaryData == IF m.versioned THEN w.data ELSE data
        j == UnmarshalJSON(m.target, binaryData)
    IN  IF m.versioned /\ ~w.ok THEN Fail("wrapper")
        ELSE IF ~FindMessage(Files, m.target) THEN Fail("target_not_found")
        ELSE IF ~j.ok THEN j
        ELSE ExpandMap(ms, m.target, j.v.o, 1)

RECURSIVE CompressMap(_, _, _, _), CompressBytes(_, _, _), CompressRecursively(_, _, _)

\* Variant of the loop that applies a mapping to a field of any kind.
CompressMapAnyKind(ms, type, o, i) ==
    IF i > Len(Desc(type)) THEN Ok(Obj(o))
    ELSE LET fd == Desc(type)[i]
             val == o[fd.name]
             mapped == FindMapping(ms, type, fd.name)
             compressed == CompressBytes(ms, val, mapped)
             sub == CompressMap(ms, fd.msg, val.o, 1)
         IN  IF fd.name \notin DOMAIN o THEN CompressMap(ms, type, o, i + 1)
             ELSE IF HasMapping(mapped)
                  THEN (IF ~compressed.ok THEN compressed
                        ELSE CompressMap(ms, type,
                                         With(o, fd.name, B64Encode(compressed.v)), i + 1))
             ELSE IF fd.kind = "message" /\ val.k = "obj"
                  THEN (IF ~sub.ok THEN sub
                        ELSE CompressMap(ms, type, With(o, fd.name, sub.v), i + 1))
             ELSE CompressMap(ms, type, o, i + 1)

\* Variant of compressBytes that resolves the target type before it looks
\* at the form of the value.
CompressBytesLookupFirst(ms, data, m) ==
    LET final == CompressRecursively(ms, m.target, data)
        binaryData ==
            IF ~FindMessage(Files, m.target) THEN Fail("target_not_found")
            ELSE IF data.k = "raw" THEN Ok(data.b)
            ELSE IF IsString(data) THEN B64Decode(data)
            ELSE IF ~final.ok THEN final
            ELSE MarshalJSON(m.target, final.v)
    IN  IF ~binaryData.ok THEN binaryData
        ELSE IF m.versioned THEN Ok(WrapVersioned(binaryData.v, m.version))
        ELSE binaryData

\* Processor.CompressRecursively's loop, from field index i on.
CompressMap(ms, type, o, i) ==
    IF i > Len(Desc(type)) THEN Ok(Obj(o))
    ELSE LET fd == Desc(type)[i]
             val == o[fd.name]
             mapped == FindMapping(ms, type, fd.name)
             compressed == CompressBytes(ms, val, mapped)
             sub == CompressMap(ms, fd.msg, val.o, 1)
         IN  IF fd.name \notin DOMAIN o THEN CompressMap(ms, type, o, i + 1)
             ELSE IF HasMapping(mapped) /\ fd.kind = "bytes"
                  THEN (IF ~compressed.ok THEN compressed
                        ELSE CompressMap(ms, type,
                                         With(o, fd.name, B64Encode(compressed.v)), i + 1))
             ELSE IF fd.kind = "message" /\ val.k = "obj"
                  THEN (IF ~sub.ok THEN sub
                        ELSE CompressMap(ms, type, With(o, fd.name, sub.v), i + 1))
             ELSE CompressMap(ms, type, o, i + 1)

\* Processor.CompressRecursively
CompressRecursively(ms, type, data) ==
    IF data.k # "obj" THEN Ok(data) ELSE CompressMap(ms, type, data.o, 1)

\* Processor.compressBytes
CompressBytes(ms, data, m) ==
    LET final == CompressRecursively(ms, m.target, data)
        binaryData ==
            IF data.k = "raw" THEN Ok(data.b)
            ELSE IF IsString(data) THEN B64Decode(data)
            ELSE IF ~FindMessage(Files, m.target) THEN Fail("target_not_found")
            ELSE IF ~final.ok THEN final
            ELSE MarshalJSON(m.target, final.v)
    IN  IF ~binaryData.ok THEN binaryData
        ELSE IF m.versioned THEN Ok(WrapVersioned(binaryData.v, m.version))
        ELSE binaryData

-----------------------------------------------------------------------------
(* Engine (pkg/engine).  The schema image and the wrapper schema load. *)

NoVersion == [set |-> FALSE, v |-> 0]
Version(v) == [set |-> TRUE, v |-> v]

\* Engine.Generate, last step: the envelope is put on when a version is given.
VersionedOutput(binaryData, versionNum) ==
    IF ~binaryData.ok THEN binaryData
    ELSE IF versionNum.set THEN Ok(MarshalWrapper(binaryData.v, versionNum.v))
    ELSE binaryData

\* Engine.Generate, after the compression: protojson.Unmarshal and
\* proto.Marshal of the compressed JSON.
MarshalCompressed(resolved, compressed, versionNum) ==
    IF ~compressed.ok THEN compressed
    ELSE VersionedOutput(MarshalJSON(resolved, compressed.v), versionNum)

\* Engine.Generate
Generate(cfg, msgName, j, versionNum) ==
    LET resolved == ResolveAlias(cfg, msgName)
    IN  IF ~FindMessage(Files, resolved) THEN Fail("message_not_found")
        ELSE MarshalCompressed(resolved,
                               IF cfg.nil THEN Ok(j)
                               ELSE CompressRecursively(cfg.mappings, resolved, j),
                               versionNum)

\* Variant of Decode that never takes the payload out of the envelope.
DecodeNoUnwrap(cfg, msgName, bin, versioned) ==
    LET resolved == ResolveAlias(cfg, msgName)
        j == UnmarshalJSON(resolved, bin)
    IN  IF ~FindMessage(Files, resolved) THEN Fail("message_not_found")
        ELSE IF ~j.ok THEN j
        ELSE IF ~cfg.nil THEN ExpandMap(cfg.mappings, resolved, j.v.o, 1)
        ELSE j

\* Engine.Decode
Decode(cfg, msgName, bin, versioned) ==
    LET resolved == ResolveAlias(cfg, msgName)
        w == UnmarshalWrapper(bin)
        binaryData == IF versioned THEN w.data ELSE bin
        j == UnmarshalJSON(resolved, binaryData)
    IN  IF versioned /\ ~w.ok THEN Fail("wrapper")
        ELSE IF ~FindMessage(Files, resolved) THEN Fail("message_not_found")
        ELSE IF ~j.ok THEN j
        ELSE IF ~cfg.nil THEN ExpandMap(cfg.mappings, resolved, j.v.o, 1)
        ELSE j

-----------------------------------------------------------------------------
(* Inputs of the wrap specification *)

ByteAlphabet == {0, 1, 10, 16, 30}
DefaultVersions == {0, 30}

RECURSIVE SeqsUpTo(_, _)
SeqsUpTo(S, n) ==
    IF n = 0 THEN {<<>>}
    ELSE LET shorter == SeqsUpTo(S, n - 1)
         IN  shorter \cup {Append(s, x) : s \in {t \in shorter : Len(t) = n - 1}, x \in S}

Unset == [ok |-> FALSE, err |-> "unset", v |-> <<>>]
NilConfig == [nil |-> TRUE, aliases |-> EmptyObj, mappings |-> <<>>]

CodecIdle ==
    /\ cCfg = NilConfig
    /\ cType = ""
    /\ cJson = Obj(EmptyObj)
    /\ cVer = NoVersion
    /\ cBin = Unset
    /\ cOut = Unset
    /\ cPc = "idle"

NoFile == [exists |-> FALSE, data |-> <<>>]
File(b) == [exists |-> TRUE, data |-> b]

TopoIdle ==
    /\ tPc = "idle"
    /\ tCfg = NilConfig
    /\ tKey = ""
    /\ tSerial = 0
    /\ tMem = Unset
    /\ tHashMem = <<>>
    /\ tPrep = NoFile
    /\ tHash = NoFile
    /\ tSig = NoFile
    /\ tCert = NoFile
    /\ tTrue = [tx |-> <<>>, entries |-> <<>>]
    /\ tKeys = {}
    /\ tLoaded = [rawTx |-> <<>>, sigs |-> <<>>]
    /\ tIdx = 0
    /\ tAllValid = TRUE
    /\ tExit = -1

HashIdle ==
    /\ hIn = [nil |-> TRUE]
    /\ hOut = [kind |-> "none", v |-> <<>>]
    /\ hPc = "idle"
    /\ hMaps = [nodes |-> EmptyObj, seeds |-> EmptyObj]
    /\ hTxHash = <<>>
    /\ hMetaHash = <<>>
    /\ hFirst = [kind |-> "none", v |-> <<>>]
    /\ hCalls = 0

WrapIdle ==
    /\ wIn = <<>>
    /\ wVer = 0
    /\ wOut = <<>>
    /\ wFirst = <<>>
    /\ wCount = 0

ReadIdle ==
    /\ rdInput = <<>>
    /\ rdIsBase64 = FALSE
    /\ rdStdin = Unset
    /\ rdFs = EmptyObj
    /\ rdRaw = <<>>
    /\ rdOut = Unset
    /\ rdPc = "idle"

LeafIdle ==
    /\ lfBase = [nil |-> TRUE]
    /\ lfField = ""
    /\ lfChanged = [nil |-> TRUE]
    /\ lfHashBase = <<>>
    /\ lfHashChanged = <<>>
    /\ lfPc = "idle"

SignIdle ==
    /\ sgMessage = <<>>
    /\ sgPriv = [form |-> "garbage", type |-> "none", key |-> 0]
    /\ sgAlgo = ""
    /\ sgPub = <<>>
    /\ sgSpec = 0
    /\ sgSigned = Unset
    /\ sgSignature = <<>>
    /\ sgOut = Unset
    /\ sgPc = "idle"

TemplateIdle ==
    /\ tpSchema = EmptyObj
    /\ tpRoot = ""
    /\ tpStack = <<>>
    /\ tpOut = EmptyObj
    /\ tpPc = "idle"

AliasIdle ==
    /\ alCfg = NilConfig
    /\ alName = ""
    /\ alOut = ""
    /\ alPc = "idle"

CancelIdle ==
    /\ cnOp = ""
    /\ cnPath = <<>>
    /\ cnVersioned = FALSE
    /\ cnConfig = FALSE
    /\ cnNest = <<>>
    /\ cnTodo = <<>>
    /\ cnCancelled = FALSE
    /\ cnCrossed = FALSE
    /\ cnOut = Unset
    /\ cnPc = "idle"

PatchIdle ==
    /\ ptData = EmptyObj
    /\ ptPrev = EmptyObj
    /\ ptLog = <<>>

TieIdle ==
    /\ tiMappings = <<>>
    /\ tiJson = Obj(EmptyObj)
    /\ tiBin = Unset
    /\ tiOut = Unset
    /\ tiPc = "idle"

NodeIdle ==
    /\ ndTx = [nil |-> TRUE]
    /\ ndContract = [nil |-> TRUE]
    /\ ndBefore = [nil |-> TRUE]
    /\ ndRound = 0
    /\ ndMaps = [nodes |-> EmptyObj, seeds |-> EmptyObj]
    /\ ndEncoded = EmptyObj
    /\ ndTxEncoded = <<>>
    /\ ndInput = <<>>
    /\ ndPc = "idle"

ExpandIdle ==
    /\ exMappings = <<>>
    /\ exType = ""
    /\ exContainer = <<>>
    /\ exTrail = <<>>
    /\ exOut = Unset
    /\ exErr = FALSE
    /\ exPc = "idle"

WalkIdle ==
    /\ wkTx = [nil |-> TRUE]
    /\ wkMaps = [nodes |-> EmptyObj, seeds |-> EmptyObj]
    /\ wkStack = <<>>
    /\ wkCalls = EmptyObj
    /\ wkPc = "idle"

AuxIdle ==
    /\ ReadIdle
    /\ LeafIdle
    /\ SignIdle
    /\ TemplateIdle
    /\ AliasIdle
    /\ CancelIdle
    /\ PatchIdle
    /\ TieIdle
    /\ NodeIdle
    /\ ExpandIdle
    /\ WalkIdle

\* For each later specification, all the others are idle.
NotReadIdle ==
    /\ WrapIdle
    /\ CodecIdle
    /\ TopoIdle
    /\ HashIdle
    /\ LeafIdle
    /\ SignIdle
    /\ TemplateIdle
    /\ AliasIdle
    /\ CancelIdle
    /\ PatchIdle
    /\ TieIdle
    /\ NodeIdle
    /\ ExpandIdle
    /\ WalkIdle

NotLeafIdle ==
    /\ WrapIdle
    /\ CodecIdle
    /\ TopoIdle
    /\ HashIdle
    /\ ReadIdle
    /\ SignIdle
    /\ TemplateIdle
    /\ AliasIdle
    /\ CancelIdle
    /\ PatchIdle
    /\ TieIdle
    /\ NodeIdle
    /\ ExpandIdle
    /\ WalkIdle

NotSignIdle ==
    /\ WrapIdle
    /\ CodecIdle
    /\ TopoIdle
    /\ HashIdle
    /\ ReadIdle
    /\ LeafIdle
    /\ TemplateIdle
    /\ AliasIdle
    /\ CancelIdle
    /\ PatchIdle
    /\ TieIdle
    /\ NodeIdle
    /\ ExpandIdle
    /\ WalkIdle

NotTemplateIdle ==
    /\ WrapIdle
    /\ CodecIdle
    /\ TopoIdle
    /\ HashIdle
    /\ ReadIdle
    /\ LeafIdle
    /\ SignIdle
    /\ AliasIdle
    /\ CancelIdle
    /\ PatchIdle
    /\ TieIdle
    /\ NodeIdle
    /\ ExpandIdle
    /\ WalkIdle

NotAliasIdle ==
    /\ WrapIdle
    /\ CodecIdle
    /\ TopoIdle
    /\ HashIdle
    /\ ReadIdle
    /\ LeafIdle
    /\ SignIdle
    /\ TemplateIdle
    /\ CancelIdle
    /\ PatchIdle
    /\ TieIdle
    /\ NodeIdle
    /\ ExpandIdle
    /\ WalkIdle

NotCancelIdle ==
    /\ WrapIdle
    /\ CodecIdle
    /\ TopoIdle
    /\ HashIdle
    /\ ReadIdle
    /\ LeafIdle
    /\ SignIdle
    /\ TemplateIdle
    /\ AliasIdle
    /\ PatchIdle
    /\ TieIdle
    /\ NodeIdle
    /\ ExpandIdle
    /\ WalkIdle

NotPatchIdle ==
    /\ WrapIdle
    /\ CodecIdle
    /\ TopoIdle
    /\ HashIdle
    /\ ReadIdle
    /\ LeafIdle
    /\ SignIdle
    /\ TemplateIdle
    /\ AliasIdle
    /\ CancelIdle
    /\ TieIdle
    /\ NodeIdle
    /\ ExpandIdle
    /\ WalkIdle

NotTieIdle ==
    /\ WrapIdle
    /\ CodecIdle
    /\ TopoIdle
    /\ HashIdle
    /\ ReadIdle
    /\ LeafIdle
    /\ SignIdle
    /\ TemplateIdle
    /\ AliasIdle
    /\ CancelIdle
    /\ PatchIdle
    /\ NodeIdle
    /\ ExpandIdle
    /\ WalkIdle

NotNodeIdle ==
    /\ WrapIdle
    /\ CodecIdle
    /\ TopoIdle
    /\ HashIdle
    /\ ReadIdle
    /\ LeafIdle
    /\ SignIdle
    /\ TemplateIdle
    /\ AliasIdle
    /\ CancelIdle
    /\ PatchIdle
    /\ TieIdle
    /\ ExpandIdle
    /\ WalkIdle

NotExpandIdle ==
    /\ WrapIdle
    /\ CodecIdle
    /\ TopoIdle
    /\ HashIdle
    /\ ReadIdle
    /\ LeafIdle
    /\ SignIdle
    /\ TemplateIdle
    /\ AliasIdle
    /\ CancelIdle
    /\ PatchIdle
    /\ TieIdle
    /\ NodeIdle
    /\ WalkIdle

NotWalkIdle ==
    /\ WrapIdle
    /\ CodecIdle
    /\ TopoIdle
    /\ HashIdle
    /\ ReadIdle
    /\ LeafIdle
    /\ SignIdle
    /\ TemplateIdle
    /\ AliasIdle
    /\ CancelIdle
    /\ PatchIdle
    /\ TieIdle
    /\ NodeIdle
    /\ ExpandIdle
WrapInit ==
    /\ CodecIdle
    /\ TopoIdle
    /\ HashIdle
    /\ AuxIdle
    /\ wIn \in SeqsUpTo(ByteAlphabet, MaxWrapLen)
    /\ wVer \in DefaultVersions
    /\ wOut = wIn
    /\ wFirst = <<>>
    /\ wCount = 0

\* The wrap step applied to bytes that need no further compression.
WrapOnce ==
    /\ wCount = 0
    /\ wOut' = WrapVersioned(wOut, wVer)
    /\ wFirst' = WrapVersioned(wOut, wVer)
    /\ wCount' = 1
    /\ UNCHANGED <<wIn, wVer, codecVars, topoVars, hashVars, auxVars>>

\* The wrap step applied again to its own output.
WrapAgain ==
    /\ wCount = 1
    /\ wOut' = WrapVersioned(wOut, wVer)
    /\ wCount' = 2
    /\ UNCHANGED <<wIn, wVer, wFirst, codecVars, topoVars, hashVars, auxVars>>

WrapNext == WrapOnce \/ WrapAgain

SpecWrap == WrapInit /\ [][WrapNext]_vars

-----------------------------------------------------------------------------
(* The codec specification: Generate, then Decode, of bounded inputs *)

AliasTable == ("T" :> "Topo")
Config(ms) == [nil |-> FALSE, aliases |-> AliasTable, mappings |-> ms]

MappingChoices ==
    {Mapping("Signed", "transaction", t, v, IF v THEN 30 ELSE 0) :
        t \in {"Topo", "Map", "Missing"}, v \in BOOLEAN}
    \cup {Mapping("Signed", "transaction", "Topo", TRUE, 0),
          Mapping("Topo", "mapping", "Map", FALSE, 0),
          Mapping("Topo", "serial", "Topo", FALSE, 0)}

Configs == {NilConfig} \cup {Config(ms) : ms \in SeqsUpTo(MappingChoices, MaxMappings)}

Absent == [k |-> "absent"]
Build(rec) == Obj([n \in {x \in DOMAIN rec : rec[x].k # "absent"} |-> rec[n]])

JsonMap == {Obj(EmptyObj), Obj("namespace" :> Str(<<1>>))}

JsonTopo ==
    {Build([operation |-> a, serial |-> b, mapping |-> c]) :
        a \in {Absent, Num(0), Num(1)}, b \in {Absent, Num(2)}, c \in {Absent} \cup JsonMap}

\* Topo{operation 1}; the same in an envelope of version 30; a malformed buffer
SampleBytes == {<<8, 1>>, <<10, 2, 8, 1, 16, 30>>, <<1>>}

JsonSigned ==
    LET txs == {Absent, Txt, Raw(<<8, 1>>)} \cup {Str(b) : b \in SampleBytes}
               \cup JsonTopo \cup JsonMap
    IN  {Build([transaction |-> t, proposal |-> p]) : t \in txs, p \in {Absent, Num(1)}}

\* Buffers handed to Decode directly: Signed{transaction = 01}, and the
\* same with the transaction in an envelope, and inside an envelope.
DecodeSamples == {<<10, 1, 1>>, <<10, 5, 10, 1, 1, 16, 30>>, <<10, 3, 10, 1, 1, 16, 30>>}

RECURSIVE HasRaw(_)
\* Whether a JSON value holds a []byte, which json.Unmarshal never yields.
HasRaw(j) ==
    IF j.k = "raw" THEN TRUE
    ELSE IF j.k = "obj" THEN \E n \in DOMAIN j.o : HasRaw(j.o[n])
    ELSE FALSE

CodecInputs ==
    {<<"Signed", j>> : j \in JsonSigned}
    \cup {<<t, j>> : t \in {"Topo", "T"}, j \in JsonTopo}

CodecInit ==
    /\ WrapIdle
    /\ TopoIdle
    /\ HashIdle
    /\ AuxIdle
    /\ cCfg \in Configs
    /\ \E in \in CodecInputs : cType = in[1] /\ cJson = in[2]
    /\ cVer \in {NoVersion, Version(0), Version(30)}
    /\ cBin = Unset
    /\ cOut = Unset
    /\ cPc = "init"

\* Engine.Generate on JSON text.
DoGenerate ==
    /\ cPc = "init"
    /\ ~HasRaw(cJson)
    /\ cBin' = Generate(cCfg, cType, cJson, cVer)
    /\ cPc' = "generated"
    /\ UNCHANGED <<cCfg, cType, cJson, cVer, cOut, wrapVars, topoVars, hashVars, auxVars>>

\* Engine.Decode on the bytes Generate returned, versioned iff they were wrapped.
DoDecode ==
    /\ cPc = "generated"
    /\ cBin.ok
    /\ cOut' = Decode(cCfg, cType, cBin.v, cVer.set)
    /\ cPc' = "decoded"
    /\ UNCHANGED <<cCfg, cType, cJson, cVer, cBin, wrapVars, topoVars, hashVars, auxVars>>

\* Processor.CompressRecursively called on a Go value (which may hold []byte).
DoCompress ==
    /\ cPc = "init"
    /\ ~cCfg.nil
    /\ FindMessage(Files, ResolveAlias(cCfg, cType))
    /\ cBin' = CompressRecursively(cCfg.mappings, ResolveAlias(cCfg, cType), cJson)
    /\ cPc' = "compressed"
    /\ UNCHANGED <<cCfg, cType, cJson, cVer, cOut, wrapVars, topoVars, hashVars, auxVars>>

\* Engine.Decode on a buffer that Generate did not produce.
DoDecodeBytes ==
    /\ cPc = "init"
    /\ cType = "Signed"
    /\ \E b \in DecodeSamples :
          /\ cBin' = Ok(b)
          /\ cOut' = Decode(cCfg, cType, b, cVer.set)
    /\ cPc' = "decoded_bytes"
    /\ UNCHANGED <<cCfg, cType, cJson, cVer, wrapVars, topoVars, hashVars, auxVars>>

CodecNext == DoGenerate \/ DoDecode \/ DoCompress \/ DoDecodeBytes

SpecCodec == CodecInit /\ [][CodecNext]_vars

-----------------------------------------------------------------------------
(* C7: the versioned wrap step is idempotent: for every byte string b and
   every default_version, wrap(wrap(b)) = wrap(b). *)
C7_WrapIdempotent == wCount = 2 => wOut = wFirst

-----------------------------------------------------------------------------
(* Canton crypto helpers (pkg/canton).  SHA-256 is modelled by an injective
   marking of its input, a signature by the scheme, the key and the signed
   digest; a DER public key is the three bytes <<48, key type, key>>. *)

\* most signature entries of a certificate handed to verify
MaxSigs == 2

Keys == {"ed1", "ec1", "ed2"}
\* The keys of the sign/verify specification: those, an ECDSA key on P-384
\* (ec1 is on P-256) and an RSA key.
SignKeys == Keys \cup {"ec2", "rs1"}

KeyType(k) ==
    CASE k \in {"ec1", "ec2"} -> "ecdsa"
      [] k = "rs1" -> "rsa"
      [] OTHER -> "ed25519"

KeyByte(k) ==
    CASE k = "ed1" -> 1 [] k = "ec1" -> 2 [] k = "ec2" -> 4 [] k = "rs1" -> 5 [] OTHER -> 3

\* The DER SubjectPublicKeyInfo of a key (112: id-Ed25519, 61: id-ecPublicKey,
\* 42: rsaEncryption).
PubKey(k) ==
    <<48, CASE KeyType(k) = "ed25519" -> 112 [] KeyType(k) = "ecdsa" -> 61 [] OTHER -> 42,
      KeyByte(k)>>

\* x509.ParsePKIXPublicKey
ParsePKIXPublicKey(data) ==
    IF Len(data) = 3 /\ data[1] = 48 /\ data[2] \in {112, 61, 42}
    THEN [ok |-> TRUE,
          type |-> CASE data[2] = 112 -> "ed25519" [] data[2] = 61 -> "ecdsa" [] OTHER -> "rsa",
          raw |-> <<data[3]>>]
    ELSE [ok |-> FALSE, type |-> "none", raw |-> <<>>]

\* privateKeyData: a 32-byte Ed25519 seed, a 64-byte Ed25519 private key, a
\* PKCS#8 document (of a key of any type), a SEC 1 EC private key, or bytes
\* that are none of these.
PrivateKeyData(form, type, key) == [form |-> form, type |-> type, key |-> key]

GarbageKey == PrivateKeyData("garbage", "none", 0)

\* The encodings of the private half of key k.
PrivateKeys(k) ==
    {PrivateKeyData("pkcs8", KeyType(k), KeyByte(k))}
        \cup (IF KeyType(k) = "ed25519"
              THEN {PrivateKeyData("seed", "ed25519", KeyByte(k)),
                    PrivateKeyData("full", "ed25519", KeyByte(k))}
              ELSE {})
        \cup (IF KeyType(k) = "ecdsa"
              THEN {PrivateKeyData("sec1", "ecdsa", KeyByte(k))}
              ELSE {})

\* The private key file of key k, as openssl writes it.
PrivateKey(k) == PrivateKeyData("pkcs8", KeyType(k), KeyByte(k))

\* x509.ParsePKCS8PrivateKey and x509.ParseECPrivateKey
ParsePKCS8PrivateKey(data) ==
    IF data.form = "pkcs8" THEN [ok |-> TRUE, type |-> data.type, key |-> data.key]
    ELSE [ok |-> FALSE, type |-> "none", key |-> 0]

ParseECPrivateKey(data) ==
    IF data.form = "sec1" THEN [ok |-> TRUE, type |-> "ecdsa", key |-> data.key]
    ELSE [ok |-> FALSE, type |-> "none", key |-> 0]

\* sha256.Sum256
Sha256(m) == <<32>> \o m

\* canton.ComputeHash: the multihash header 0x12 0x20, then the digest of
\* the purpose prefix and the data.
ComputeHash(data, purpose) == <<18, 32>> \o Sha256(<<purpose>> \o data)

\* hex.EncodeToString: two digits per byte.
RECURSIVE HexEncode(_)
HexEncode(bs) ==
    IF bs = <<>> THEN <<>>
    ELSE <<Head(bs) \div 16, Head(bs) % 16>> \o HexEncode(Tail(bs))

\* canton.Fingerprint
Fingerprint(data) ==
    LET pub == ParsePKIXPublicKey(data)
        keyData == IF pub.ok /\ pub.type = "ed25519" THEN pub.raw ELSE data
    IN  HexEncode(ComputeHash(keyData, 12))

\* canton.GetSignatureMetadata, with the enum numbers of the two names it
\* returns (SigningAlgorithmSpec, SignatureFormat).
GetSignatureMetadata(algo) ==
    CASE algo = "ed25519" -> [ok |-> TRUE, algorithm |-> 1, format |-> 3]
      [] algo = "ecdsa256" -> [ok |-> TRUE, algorithm |-> 2, format |-> 2]
      [] algo = "ecdsa384" -> [ok |-> TRUE, algorithm |-> 3, format |-> 2]
      [] OTHER -> [ok |-> FALSE, algorithm |-> 0, format |-> 0]

\* sha512.Sum384
Sha384(m) == <<48>> \o m

\* ed25519.Sign and ecdsa.SignASN1 with the private key numbered key.
Ed25519Sign(key, message) == <<1, key>> \o message
EcdsaSignASN1(key, hash) == <<2, key>> \o hash

\* Sign, its ECDSA branch: the private key is read as SEC 1, then as PKCS#8.
SignEcdsa(digest, privateKeyData) ==
    LET priv == ParseECPrivateKey(privateKeyData)
        p8 == ParsePKCS8PrivateKey(privateKeyData)
    IN  IF priv.ok THEN Ok(EcdsaSignASN1(priv.key, digest))
        ELSE IF ~p8.ok THEN Fail("parse_ecdsa_private_key")
        ELSE IF p8.type # "ecdsa" THEN Fail("not_ecdsa_pkcs8")
        ELSE Ok(EcdsaSignASN1(p8.key, digest))

\* Sign, its Ed25519 branch: a seed, a 64-byte key, then PKCS#8.
SignEd25519(message, privateKeyData) ==
    LET priv == ParsePKCS8PrivateKey(privateKeyData)
    IN  IF privateKeyData.form \in {"seed", "full"}
        THEN Ok(Ed25519Sign(privateKeyData.key, message))
        ELSE IF priv.ok /\ priv.type = "ed25519" THEN Ok(Ed25519Sign(priv.key, message))
        ELSE Fail("invalid_ed25519_private_key")

\* Variant of Sign whose ecdsa384 branch signs the SHA-384 digest.
SignDigestByName(message, privateKeyData, algo) ==
    IF algo = "ed25519" THEN SignEd25519(message, privateKeyData)
    ELSE IF algo = "ecdsa256" THEN SignEcdsa(Sha256(message), privateKeyData)
    ELSE IF algo = "ecdsa384" THEN SignEcdsa(Sha384(message), privateKeyData)
    ELSE Fail("unsupported_algorithm")

\* canton.Sign
Sign(message, privateKeyData, algo) ==
    IF algo = "ed25519" THEN SignEd25519(message, privateKeyData)
    ELSE IF algo \in {"ecdsa256", "ecdsa384"}
    THEN SignEcdsa(Sha256(message), privateKeyData)
    ELSE Fail("unsupported_algorithm")

\* Variant of VerifySignature that looks at the algorithm spec before it
\* parses the public key.
VerifySignatureSpecFirst(message, signature, publicKeyData, algoSpec) ==
    LET pub == ParsePKIXPublicKey(publicKeyData)
    IN  IF algoSpec \notin {1, 2, 3} THEN Fail("unsupported_algorithm_spec")
        ELSE IF ~pub.ok THEN Fail("parse_public_key")
        ELSE IF algoSpec = 1
        THEN (IF pub.type # "ed25519" THEN Fail("not_ed25519_key")
              ELSE Ok(signature = <<1>> \o pub.raw \o message))
        ELSE (IF pub.type # "ecdsa" THEN Fail("not_ecdsa_key")
              ELSE Ok(signature = <<2>> \o pub.raw \o Sha256(message)))

\* Variant of VerifySignature whose ECDSA branch verifies the message
\* itself instead of its SHA-256 digest.
VerifySignatureNoDigest(message, signature, publicKeyData, algoSpec) ==
    LET pub == ParsePKIXPublicKey(publicKeyData)
    IN  IF ~pub.ok THEN Fail("parse_public_key")
        ELSE IF algoSpec = 1
        THEN (IF pub.type # "ed25519" THEN Fail("not_ed25519_key")
              ELSE Ok(signature = <<1>> \o pub.raw \o message))
        ELSE IF algoSpec \in {2, 3}
        THEN (IF pub.type # "ecdsa" THEN Fail("not_ecdsa_key")
              ELSE Ok(signature = <<2>> \o pub.raw \o message))
        ELSE Fail("unsupported_algorithm_spec")

\* canton.VerifySignature; algoSpec is the number of the enum value whose
\* name the code switches on.
VerifySignature(message, signature, publicKeyData, algoSpec) ==
    LET pub == ParsePKIXPublicKey(publicKeyData)
    IN  IF ~pub.ok THEN Fail("parse_public_key")
        ELSE IF algoSpec = 1
        THEN (IF pub.type # "ed25519" THEN Fail("not_ed25519_key")
              ELSE Ok(signature = <<1>> \o pub.raw \o message))
        ELSE IF algoSpec \in {2, 3}
        THEN (IF pub.type # "ecdsa" THEN Fail("not_ecdsa_key")
              ELSE Ok(signature = <<2>> \o pub.raw \o Sha256(message)))
        ELSE Fail("unsupported_algorithm_spec")

-----------------------------------------------------------------------------
(* The topology workflow (cmd/proton/cmd_canton.go): prepare delegation,
   external signing of the .hash file, assemble, verify.  A
   SignedTopologyTransaction is {transaction = 1 (bytes), signatures = 2
   (repeated Signature), proposal = 3}; a Signature is {format = 1,
   signature = 2, signed_by = 3, signing_algorithm_spec = 4}. *)

\* proto.Marshal of an embedded message field (emitted even when empty).
PutMsg(num, payload) == <<Tag(num, 2), Len(payload)>> \o payload

SignatureEntry(format, signature, signedBy, algorithm) ==
    [format |-> format, signature |-> signature, signedBy |-> signedBy,
     algorithm |-> algorithm]

EntryBytes(e) ==
    PutVarint(1, e.format) \o PutBytes(2, e.signature)
        \o PutBytes(3, e.signedBy) \o PutVarint(4, e.algorithm)

RECURSIVE EntriesBytes(_)
EntriesBytes(es) ==
    IF es = <<>> THEN <<>>
    ELSE PutMsg(2, EntryBytes(Head(es))) \o EntriesBytes(Tail(es))

\* The transaction JSON that prepare delegation --root builds by patching
\* (operation ADD_REPLACE, the serial, the namespace fingerprint).
PrepareJson(k, serial) ==
    Obj(("operation" :> Num(1)) @@ ("serial" :> Num(serial))
        @@ ("mapping" :> Obj("namespace" :> Str(Fingerprint(PubKey(k))))))

\* The value of the transaction field after assemble's Generate has
\* compressed {"transaction": base64(prep), ...}.
StoredTx(cfg, prep) ==
    LET j == Obj("transaction" :> Str(prep))
        c == IF cfg.nil THEN Ok(j) ELSE CompressRecursively(cfg.mappings, "Signed", j)
    IN  IF c.ok THEN c.v.o["transaction"].b ELSE <<>>

\* assemble's e.Generate(SignedTopologyTransaction, json, &version): base
\* is the outcome for the transaction field alone, to which the encoded
\* signatures entries are appended before the envelope is put on.
SignedJson(prep) == Obj("transaction" :> Str(prep))

GenerateSigned(base, entries, version) ==
    IF ~base.ok THEN base
    ELSE Ok(MarshalWrapper(base.v \o EntriesBytes(entries), version))

RECURSIVE SigPayloads(_)
\* The payloads of the occurrences of the repeated field signatures.
SigPayloads(fields) ==
    IF fields = <<>> THEN <<>>
    ELSE (IF Head(fields).num = 2 /\ IsBytes(Head(fields).wt)
          THEN <<Head(fields).b>> ELSE <<>>) \o SigPayloads(Tail(fields))

DecodeEntry(payload) ==
    LET p == ParseFields(payload)
    IN  [ok |-> p.ok,
         entry |-> SignatureEntry(LastField(p.fields, 1, 0, NoField).n,
                                  LastField(p.fields, 2, 2, NoField).b,
                                  LastField(p.fields, 3, 2, NoField).b,
                                  LastField(p.fields, 4, 0, NoField).n)]

\* verify steps 2 to 5: the heuristic unwrap, proto.Unmarshal as
\* SignedTopologyTransaction, and the non-empty test of the transaction.
LoadSigned(input) ==
    LET w == UnmarshalWrapper(input)
        inputData == IF w.ok /\ Len(w.data) > 0 THEN w.data ELSE input
        p == ParseFields(inputData)
        payloads == SigPayloads(p.fields)
        rawTx == LastField(p.fields, 1, 2, NoField).b
    IN  IF ~p.ok \/ \E i \in 1..Len(payloads) : ~DecodeEntry(payloads[i]).ok
        THEN Fail("unmarshal")
        ELSE IF Len(rawTx) = 0 THEN Fail("empty_transaction")
        ELSE Ok([rawTx |-> rawTx,
                 sigs |-> [i \in 1..Len(payloads) |-> DecodeEntry(payloads[i]).entry]])

\* verify's keys map: fingerprint -> key data.
HasKey(ks, fp) == \E k \in ks : Fingerprint(PubKey(k)) = fp
KeyFor(ks, fp) == PubKey(CHOOSE k \in ks : Fingerprint(PubKey(k)) = fp)

\* One iteration of verify's loop: whether the entry counts as valid.
EntryValid(ks, txHash, e) ==
    LET r == VerifySignature(txHash, e.signature, KeyFor(ks, e.signedBy), e.algorithm)
    IN  HasKey(ks, e.signedBy) /\ r.ok /\ r.v

\* Engine configurations of the workflow: none, and the nesting mapping of
\* the transaction field, versioned at 30 or not versioned.
TopoConfigs ==
    {NilConfig,
     Config(<<Mapping("Signed", "transaction", "Topo", TRUE, 30)>>),
     Config(<<Mapping("Signed", "transaction", "Topo", FALSE, 0)>>)}

KeySets == {{"ed1"}, {"ec1"}, {"ed1", "ec1"}, {"ed2"}}

\* Certificates handed to verify that assemble did not write.
GivenTxs == {<<10, 2, 8, 1, 16, 30>>, <<>>}

GoodEntry(tx, k, algo) ==
    LET meta == GetSignatureMetadata(algo)
    IN  SignatureEntry(meta.format, Sign(ComputeHash(tx, 11), PrivateKey(k), algo).v,
                       Fingerprint(PubKey(k)), meta.algorithm)

\* A valid Ed25519 entry, one over another payload, a valid ECDSA entry,
\* and an Ed25519 entry labelled with the ECDSA algorithm.
EntryChoices(tx) ==
    {GoodEntry(tx, "ed1", "ed25519"),
     GoodEntry(<<8, 2>>, "ed1", "ed25519"),
     GoodEntry(tx, "ec1", "ecdsa256"),
     [GoodEntry(tx, "ed1", "ed25519") EXCEPT !.algorithm = 2]}

GivenCerts ==
    UNION {{[tx |-> tx, entries |-> es, wrapped |-> w] :
                es \in SeqsUpTo(EntryChoices(tx), MaxSigs), w \in BOOLEAN} :
           tx \in GivenTxs}

CertBytes(c) ==
    LET signed == PutBytes(1, c.tx) \o EntriesBytes(c.entries)
    IN  IF c.wrapped THEN MarshalWrapper(signed, 30) ELSE signed

TopoStart ==
    /\ tMem = Unset
    /\ tHashMem = <<>>
    /\ tPrep = NoFile
    /\ tHash = NoFile
    /\ tSig = NoFile
    /\ tKeys = {}
    /\ tLoaded = [rawTx |-> <<>>, sigs |-> <<>>]
    /\ tIdx = 0
    /\ tAllValid = TRUE
    /\ tExit = -1

TopoInit ==
    /\ WrapIdle
    /\ CodecIdle
    /\ HashIdle
    /\ AuxIdle
    /\ TopoStart
    /\ \/ /\ tPc = "start"
          /\ tCfg \in TopoConfigs
          /\ tKey \in {"ed1", "ec1"}
          /\ tSerial \in {1, 2}
          /\ tCert = NoFile
          /\ tTrue = [tx |-> <<>>, entries |-> <<>>]
       \/ /\ tPc = "given"
          /\ tCfg = NilConfig
          /\ tKey = ""
          /\ tSerial = 0
          /\ \E c \in GivenCerts :
                /\ tCert = File(CertBytes(c))
                /\ tTrue = [tx |-> c.tx, entries |-> c.entries]

\* prepare delegation: Generate, then write <prefix>.prep (which may fail).
PrepareWritePrep ==
    /\ tPc = "start"
    /\ \E jsonData \in {PrepareJson(tKey, tSerial)} :
       \E binaryData \in {Generate(tCfg, "Topo", jsonData, Version(30))} :
          /\ tMem' = binaryData
          /\ \E written \in BOOLEAN :
                IF binaryData.ok /\ written
                THEN tPrep' = File(binaryData.v) /\ tPc' = "prep_written"
                                                  /\ tExit' = tExit
                ELSE tPrep' = tPrep /\ tPc' = "prepare_failed" /\ tExit' = 1
    /\ UNCHANGED <<tCfg, tKey, tSerial, tHashMem, tHash, tSig, tCert, tTrue, tKeys,
                   tLoaded, tIdx, tAllValid, wrapVars, codecVars, hashVars, auxVars>>

\* prepare delegation: compute the hash, then write <prefix>.hash (which may fail).
PrepareWriteHash ==
    /\ tPc = "prep_written"
    /\ tHashMem' = ComputeHash(tMem.v, 11)
    /\ \E written \in BOOLEAN :
          IF written
          THEN tHash' = File(ComputeHash(tMem.v, 11)) /\ tPc' = "prepared" /\ tExit' = 0
          ELSE tHash' = tHash /\ tPc' = "prepare_failed" /\ tExit' = 1
    /\ UNCHANGED <<tCfg, tKey, tSerial, tMem, tPrep, tSig, tCert, tTrue, tKeys,
                   tLoaded, tIdx, tAllValid, wrapVars, codecVars, hashVars, auxVars>>

\* What the .prep file may be replaced with between prepare and assemble.
OtherPrep ==
    UNION {{Generate(NilConfig, "Topo", jsonData, Version(30)).v} :
              jsonData \in {PrepareJson(tKey, 3 - tSerial)}}

TamperChoices ==
    {UnmarshalWrapper(tMem.v).data, <<>>, <<1>>, MarshalWrapper(tMem.v, 30)}
        \cup OtherPrep

\* The environment rewrites the .prep file.
Tamper ==
    /\ tPc \in {"prepared", "signed"}
    /\ tPrep.data = tMem.v
    /\ \E b \in TamperChoices : tPrep' = File(b)
    /\ UNCHANGED <<tPc, tCfg, tKey, tSerial, tMem, tHashMem, tHash, tSig, tCert, tTrue,
                   tKeys, tLoaded, tIdx, tAllValid, tExit, wrapVars, codecVars, hashVars, auxVars>>

\* The holder of the private key signs the content of the .hash file.
SignHash ==
    /\ tPc = "prepared"
    /\ tSig' = File(Sign(tHash.data, PrivateKey(tKey),
                         IF KeyType(tKey) = "ed25519" THEN "ed25519" ELSE "ecdsa256").v)
    /\ tPc' = "signed"
    /\ UNCHANGED <<tCfg, tKey, tSerial, tMem, tHashMem, tPrep, tHash, tCert, tTrue,
                   tKeys, tLoaded, tIdx, tAllValid, tExit, wrapVars, codecVars, hashVars, auxVars>>

\* assemble: read the .prep and the signature, build the signed
\* transaction with one entry, Generate, write the certificate.
Assemble ==
    /\ tPc = "signed"
    /\ \E algo \in {"ed25519", "ecdsa256"}, by \in {"ed1", "ec1"}, written \in BOOLEAN :
       \E sigMeta \in {GetSignatureMetadata(algo)} :
       \E entry \in {SignatureEntry(sigMeta.format, tSig.data,
                                     Fingerprint(PubKey(by)), sigMeta.algorithm)} :
       \E base \in {Generate(tCfg, "Signed", SignedJson(tPrep.data), NoVersion)} :
       \E binaryData \in {GenerateSigned(base, <<entry>>, 30)} :
          IF binaryData.ok /\ written
          THEN /\ tCert' = File(binaryData.v)
               /\ tTrue' = [tx |-> StoredTx(tCfg, tPrep.data), entries |-> <<entry>>]
               /\ tPc' = "assembled"
               /\ tExit' = 0
          ELSE /\ UNCHANGED <<tCert, tTrue>>
               /\ tPc' = "assemble_failed"
               /\ tExit' = 1
    /\ UNCHANGED <<tCfg, tKey, tSerial, tMem, tHashMem, tPrep, tHash, tSig, tKeys,
                   tLoaded, tIdx, tAllValid, wrapVars, codecVars, hashVars, auxVars>>

\* verify, up to the loop: load the keys, unwrap, decode, test the
\* transaction field; any failure is fatal (exit 1).
VerifyLoad ==
    /\ tPc \in {"assembled", "given"}
    /\ tKeys' \in KeySets
    /\ LET signedTx == LoadSigned(tCert.data)
       IN  IF signedTx.ok
           THEN /\ tLoaded' = signedTx.v
                /\ tIdx' = 1
                /\ tAllValid' = TRUE
                /\ tPc' = "checking"
                /\ tExit' = -1
           ELSE /\ UNCHANGED <<tLoaded, tIdx, tAllValid>>
                /\ tPc' = "done"
                /\ tExit' = 1
    /\ UNCHANGED <<tCfg, tKey, tSerial, tMem, tHashMem, tPrep, tHash, tSig, tCert, tTrue,
                   wrapVars, codecVars, hashVars, auxVars>>

\* verify: one iteration of the signature loop.
VerifyCheck ==
    /\ tPc = "checking"
    /\ tIdx <= Len(tLoaded.sigs)
    /\ tAllValid' = (tAllValid /\ EntryValid(tKeys, ComputeHash(tLoaded.rawTx, 11),
                                              tLoaded.sigs[tIdx]))
    /\ tIdx' = tIdx + 1
    /\ UNCHANGED <<tPc, tCfg, tKey, tSerial, tMem, tHashMem, tPrep, tHash, tSig, tCert,
                   tTrue, tKeys, tLoaded, tExit, wrapVars, codecVars, hashVars, auxVars>>

\* An end of verify that takes no signature for a failure.
VerifyExitNeedsSignature ==
    /\ tPc = "checking"
    /\ tIdx > Len(tLoaded.sigs)
    /\ tExit' = IF tAllValid /\ Len(tLoaded.sigs) > 0 THEN 0 ELSE 1
    /\ tPc' = "done"
    /\ UNCHANGED <<tCfg, tKey, tSerial, tMem, tHashMem, tPrep, tHash, tSig, tCert, tTrue,
                   tKeys, tLoaded, tIdx, tAllValid, wrapVars, codecVars, hashVars, auxVars>>

\* verify: after the loop, exit 1 unless allValid.
VerifyExit ==
    /\ tPc = "checking"
    /\ tIdx > Len(tLoaded.sigs)
    /\ tExit' = IF tAllValid THEN 0 ELSE 1
    /\ tPc' = "done"
    /\ UNCHANGED <<tCfg, tKey, tSerial, tMem, tHashMem, tPrep, tHash, tSig, tCert, tTrue,
                   tKeys, tLoaded, tIdx, tAllValid, wrapVars, codecVars, hashVars, auxVars>>

TopoNext ==
    \/ PrepareWritePrep
    \/ PrepareWriteHash
    \/ Tamper
    \/ SignHash
    \/ Assemble
    \/ VerifyLoad
    \/ VerifyCheck
    \/ VerifyExit

SpecTopology == TopoInit /\ [][TopoNext]_vars

-----------------------------------------------------------------------------
(* The structural hasher (pkg/daml/hash/hash.go).  A string is the sequence
   of its bytes, a hex string the sequence of its digit values, and a nil
   pointer or an unset oneof a record with nil = TRUE.  A dereference of a
   nil pointer is a Go panic; for every encoder that can meet one, the
   operator <encoder>Panics tells whether it does. *)

PreparedTransactionHashPurpose == <<0, 0, 0, 48>>
HashingSchemeVersionByte == <<2>>
NodeEncodingVersion == <<1>>

\* make([]byte, 32)
Zero32 == [i \in 1..32 |-> 0]

encodeInt32(v) ==
    <<(v \div 16777216) % 256, (v \div 65536) % 256, (v \div 256) % 256, v % 256>>

\* the 64-bit values of the model are below 2^32
encodeInt64(v) == <<0, 0, 0, 0>> \o encodeInt32(v)

encodeBytes(v) == encodeInt32(Len(v)) \o v

encodeString(v) == encodeBytes(v)

encodeBool(v) == IF v THEN <<1>> ELSE <<0>>

\* encoding/hex's reverseHexTable: the value of a hex digit character (0-9,
\* a-f, A-F, given by its ASCII code), 255 for any other character.
fromHexChar(c) ==
    IF c \in 48..57 THEN c - 48
    ELSE IF c \in 97..102 THEN c - 87
    ELSE IF c \in 65..70 THEN c - 55
    ELSE 255

\* hex.DecodeString: one byte per pair of hex digits; the bytes decoded
\* before an invalid character or an odd tail are kept (the caller discards
\* the error).
RECURSIVE HexDecode(_)
HexDecode(src) ==
    IF Len(src) < 2 THEN <<>>
    ELSE IF fromHexChar(src[1]) > 15 \/ fromHexChar(src[2]) > 15 THEN <<>>
    ELSE <<fromHexChar(src[1]) * 16 + fromHexChar(src[2])>>
             \o HexDecode(SubSeq(src, 3, Len(src)))

encodeHexString(v) == encodeBytes(HexDecode(v))

RECURSIVE Flatten(_)
Flatten(parts) == IF parts = <<>> THEN <<>> ELSE Head(parts) \o Flatten(Tail(parts))

\* encodeRepeated, given the encodings encodeFn yields for the items.
encodeRepeated(encoded) == encodeInt32(Len(encoded)) \o Flatten(encoded)

\* encodeRepeated(items, encodeString)
encodeStrings(items) == encodeRepeated([i \in 1..Len(items) |-> encodeString(items[i])])

encodeOptional(exists, encoded) == IF exists THEN <<1>> \o encoded ELSE <<0>>

\* strings.Split(s, "."), 46 being the dot
RECURSIVE Split(_)
Split(s) ==
    LET dots == {i \in 1..Len(s) : s[i] = 46}
        first == CHOOSE i \in dots : \A j \in dots : i <= j
    IN  IF dots = {} THEN <<s>>
        ELSE <<SubSeq(s, 1, first - 1)>> \o Split(SubSeq(s, first + 1, Len(s)))

splitParts(s) == IF s = <<>> THEN <<>> ELSE Split(s)

encodeIdentifier(id) ==
    IF id.nil THEN <<>>
    ELSE encodeString(id.packageId)
             \o encodeStrings(splitParts(id.moduleName))
             \o encodeStrings(splitParts(id.entityName))

\* encodeValue on the value kinds of the model's inputs (nil, unit, bool,
\* int64, party, text); a value with no kind set encodes to nothing.
encodeValue(v) ==
    CASE v.kind = "nil" -> <<>>
      [] v.kind = "unit" -> <<0>>
      [] v.kind = "bool" -> <<1>> \o encodeBool(v.b)
      [] v.kind = "int64" -> <<2>> \o encodeInt64(v.n)
      [] v.kind = "party" -> <<6>> \o encodeString(v.s)
      [] v.kind = "text" -> <<7>> \o encodeString(v.s)
      [] OTHER -> <<>>

encodeCreateNodePanics(create) == create.nil

\* encodeCreateNode with the seed put in as encodeExerciseNode puts it:
\* raw, without the optional marker.
encodeCreateNodeRawSeed(create, nodeID, seedsMap) ==
    NodeEncodingVersion \o encodeString(create.lfVersion) \o <<0>>
        \o (IF nodeID \in DOMAIN seedsMap THEN seedsMap[nodeID] ELSE <<>>)
        \o encodeHexString(create.contractId)
        \o encodeString(create.packageName)
        \o encodeIdentifier(create.templateId)
        \o encodeValue(create.argument)
        \o encodeStrings(create.signatories)
        \o encodeStrings(create.stakeholders)

encodeCreateNode(create, nodeID, seedsMap) ==
    NodeEncodingVersion \o encodeString(create.lfVersion) \o <<0>>
        \o (IF nodeID \in DOMAIN seedsMap THEN <<1>> \o seedsMap[nodeID] ELSE <<0>>)
        \o encodeHexString(create.contractId)
        \o encodeString(create.packageName)
        \o encodeIdentifier(create.templateId)
        \o encodeValue(create.argument)
        \o encodeStrings(create.signatories)
        \o encodeStrings(create.stakeholders)

RECURSIVE encodeNode(_, _, _), encodeNodePanics(_, _)

\* The closure that leaves out the id of no node.
nodeDigestSkipsMissing(id, nodesMap, seedsMap) ==
    IF id \in DOMAIN nodesMap THEN Sha256(encodeNode(nodesMap[id], nodesMap, seedsMap))
    ELSE <<>>

\* The closure of encodeTransaction and encodeRollbackNode: the digest of
\* the node with this id, 32 zero bytes when there is none.
nodeDigest(id, nodesMap, seedsMap) ==
    IF id \in DOMAIN nodesMap THEN Sha256(encodeNode(nodesMap[id], nodesMap, seedsMap))
    ELSE Zero32

nodeDigestPanics(id, nodesMap) ==
    id \in DOMAIN nodesMap /\ encodeNodePanics(nodesMap[id], nodesMap)

\* encodeRollbackNode with the header of the other node types, the
\* lf_version being the empty string.
encodeRollbackNodeWithVersion(rollback, nodeID, nodesMap, seedsMap) ==
    NodeEncodingVersion \o encodeString(<<>>) \o <<3>>
        \o encodeRepeated([i \in 1..Len(rollback.children) |->
                               nodeDigest(rollback.children[i], nodesMap, seedsMap)])

encodeRollbackNode(rollback, nodeID, nodesMap, seedsMap) ==
    NodeEncodingVersion \o <<3>>
        \o encodeRepeated([i \in 1..Len(rollback.children) |->
                               nodeDigest(rollback.children[i], nodesMap, seedsMap)])

encodeRollbackNodePanics(rollback, nodesMap) ==
    \/ rollback.nil
    \/ \E i \in 1..Len(rollback.children) : nodeDigestPanics(rollback.children[i], nodesMap)

\* The seed of an exercise node goes in raw: nothing for a node without
\* seed.
encodeExerciseNode(exercise, nodeID, nodesMap, seedsMap) ==
    NodeEncodingVersion \o encodeString(exercise.lfVersion) \o <<1>>
        \o (IF nodeID \in DOMAIN seedsMap THEN seedsMap[nodeID] ELSE <<>>)
        \o encodeHexString(exercise.contractId)
        \o encodeString(exercise.packageName)
        \o encodeIdentifier(exercise.templateId)
        \o encodeStrings(exercise.signatories)
        \o encodeStrings(exercise.stakeholders)
        \o encodeStrings(exercise.actingParties)
        \o encodeOptional(~exercise.interfaceId.nil, encodeIdentifier(exercise.interfaceId))
        \o encodeString(exercise.choiceId)
        \o encodeValue(exercise.chosenValue)
        \o encodeBool(exercise.consuming)
        \o encodeOptional(exercise.exerciseResult.kind # "nil",
                          encodeValue(exercise.exerciseResult))
        \o encodeStrings(exercise.choiceObservers)
        \o encodeRepeated([i \in 1..Len(exercise.children) |->
                               nodeDigest(exercise.children[i], nodesMap, seedsMap)])

encodeExerciseNodePanics(exercise, nodesMap) ==
    \/ exercise.nil
    \/ \E i \in 1..Len(exercise.children) : nodeDigestPanics(exercise.children[i], nodesMap)

encodeFetchNode(fetch, nodeID) ==
    NodeEncodingVersion \o encodeString(fetch.lfVersion) \o <<2>>
        \o encodeHexString(fetch.contractId)
        \o encodeString(fetch.packageName)
        \o encodeIdentifier(fetch.templateId)
        \o encodeStrings(fetch.signatories)
        \o encodeStrings(fetch.stakeholders)
        \o encodeOptional(~fetch.interfaceId.nil, encodeIdentifier(fetch.interfaceId))
        \o encodeStrings(fetch.actingParties)

encodeFetchNodePanics(fetch) == fetch.nil

\* encodeNodeV1 on the node types create, exercise, fetch and rollback, or
\* none set.
encodeNodeV1(v1Node, nodeID, nodesMap, seedsMap) ==
    CASE v1Node.type = "create" -> encodeCreateNode(v1Node.create, nodeID, seedsMap)
      [] v1Node.type = "exercise" ->
             encodeExerciseNode(v1Node.exercise, nodeID, nodesMap, seedsMap)
      [] v1Node.type = "fetch" -> encodeFetchNode(v1Node.fetch, nodeID)
      [] v1Node.type = "rollback" ->
             encodeRollbackNode(v1Node.rollback, nodeID, nodesMap, seedsMap)
      [] OTHER -> <<>>

encodeNodeV1Panics(v1Node, nodesMap) ==
    \/ v1Node.nil
    \/ v1Node.type = "create" /\ encodeCreateNodePanics(v1Node.create)
    \/ v1Node.type = "exercise" /\ encodeExerciseNodePanics(v1Node.exercise, nodesMap)
    \/ v1Node.type = "fetch" /\ encodeFetchNodePanics(v1Node.fetch)
    \/ v1Node.type = "rollback" /\ encodeRollbackNodePanics(v1Node.rollback, nodesMap)

encodeNode(node, nodesMap, seedsMap) ==
    IF node.versioned = "v1" THEN encodeNodeV1(node.v1, node.nodeId, nodesMap, seedsMap)
    ELSE <<>>

encodeNodePanics(node, nodesMap) ==
    node.versioned = "v1" /\ encodeNodeV1Panics(node.v1, nodesMap)

encodeTransaction(tx, nodesMap, seedsMap) ==
    encodeString(tx.version)
        \o encodeRepeated([i \in 1..Len(tx.roots) |->
                               nodeDigest(tx.roots[i], nodesMap, seedsMap)])

\* tx.Version is read through the pointer without a nil test.
encodeTransactionPanics(tx, nodesMap) ==
    \/ tx.nil
    \/ \E i \in 1..Len(tx.roots) : nodeDigestPanics(tx.roots[i], nodesMap)

hashTransaction(tx, nodesMap, seedsMap) ==
    Sha256(PreparedTransactionHashPurpose \o encodeTransaction(tx, nodesMap, seedsMap))

UnusedNodeId == <<117>>

\* encodeInputContract with the seeds of the transaction, the contract
\* taken for node 0.
encodeInputContractSeeded(contract, nodesMap, seedsMap) ==
    encodeInt64(contract.createdAt)
        \o Sha256(IF contract.contract = "v1"
                  THEN encodeCreateNode(contract.v1, <<48>>, seedsMap)
                  ELSE <<>>)

encodeInputContract(contract, nodesMap, seedsMap) ==
    encodeInt64(contract.createdAt)
        \o Sha256(IF contract.contract = "v1"
                  THEN encodeCreateNode(contract.v1, UnusedNodeId, EmptyObj)
                  ELSE <<>>)

encodeInputContractPanics(contract) ==
    contract.contract = "v1" /\ encodeCreateNodePanics(contract.v1)

encodeMetadata(metadata, nodesMap, seedsMap) ==
    <<1>>
        \o (IF ~metadata.submitterInfo.nil
            THEN encodeStrings(metadata.submitterInfo.actAs)
                     \o encodeString(metadata.submitterInfo.commandId)
            ELSE encodeInt32(0) \o encodeString(<<>>))
        \o encodeString(metadata.transactionUuid)
        \o encodeInt32(metadata.mediatorGroup)
        \o encodeString(metadata.synchronizerId)
        \o encodeOptional(~metadata.minLedgerEffectiveTime.nil,
                          encodeInt64(metadata.minLedgerEffectiveTime.v))
        \o encodeOptional(~metadata.maxLedgerEffectiveTime.nil,
                          encodeInt64(metadata.maxLedgerEffectiveTime.v))
        \o encodeInt64(metadata.preparationTime)
        \o encodeRepeated([i \in 1..Len(metadata.inputContracts) |->
                               encodeInputContract(metadata.inputContracts[i],
                                                   nodesMap, seedsMap)])

\* metadata.SubmitterInfo is read through the pointer without a nil test.
encodeMetadataPanics(metadata) ==
    \/ metadata.nil
    \/ \E i \in 1..Len(metadata.inputContracts) :
          encodeInputContractPanics(metadata.inputContracts[i])

hashMetadata(metadata, nodesMap, seedsMap) ==
    Sha256(PreparedTransactionHashPurpose \o encodeMetadata(metadata, nodesMap, seedsMap))

\* fmt.Sprintf("%d", n) for 0 <= n < 100
Itoa(n) == IF n < 10 THEN <<48 + n>> ELSE <<48 + (n \div 10), 48 + (n % 10)>>

\* nodesMap[id] after the loop of assignments: the last node with the id.
lastNode(nodes, id) ==
    nodes[CHOOSE i \in 1..Len(nodes) :
              /\ nodes[i].nodeId = id
              /\ \A j \in 1..Len(nodes) : nodes[j].nodeId = id => j <= i]

\* seedsMap[key] after the loop of assignments: the last seed with the key.
lastSeed(seeds, key) ==
    seeds[CHOOSE i \in 1..Len(seeds) :
              /\ Itoa(seeds[i].nodeId) = key
              /\ \A j \in 1..Len(seeds) : Itoa(seeds[j].nodeId) = key => j <= i].seed

buildNodesAndSeedsMap(damlTx) ==
    IF damlTx.nil THEN [nodes |-> EmptyObj, seeds |-> EmptyObj]
    ELSE [nodes |-> [id \in {damlTx.nodes[i].nodeId : i \in 1..Len(damlTx.nodes)} |->
                        lastNode(damlTx.nodes, id)],
          seeds |-> [key \in {Itoa(damlTx.nodeSeeds[i].nodeId) :
                                  i \in 1..Len(damlTx.nodeSeeds)} |->
                        lastSeed(damlTx.nodeSeeds, key)]]

-----------------------------------------------------------------------------
(* The hasher specification: HashPreparedTransaction on the prepared
   transactions below, one action per step of the function. *)

\* most input contracts a metadata carries
MaxInputContracts == 1

NilPointer == [nil |-> TRUE]

NoResult == [kind |-> "none", v |-> <<>>]
NoMaps == [nodes |-> EmptyObj, seeds |-> EmptyObj]

HashCreates ==
    {NilPointer,
     [nil |-> FALSE, lfVersion |-> <<50>>, contractId |-> <<97, 98>>,
      packageName |-> <<112>>, templateId |-> NilPointer,
      argument |-> [kind |-> "unit", b |-> FALSE, n |-> 0, s |-> <<>>],
      signatories |-> <<<<97>>>>, stakeholders |-> <<>>],
     [nil |-> FALSE, lfVersion |-> <<50>>, contractId |-> <<97, 98, 99>>,
      packageName |-> <<112>>,
      templateId |-> [nil |-> FALSE, packageId |-> <<112>>,
                      moduleName |-> <<77, 46, 78>>, entityName |-> <<69>>],
      argument |-> [kind |-> "text", b |-> FALSE, n |-> 0, s |-> <<116>>],
      signatories |-> <<<<97>>>>, stakeholders |-> <<<<97>>, <<98>>>>]}

V1Node(type, create, rollback) ==
    [nil |-> FALSE, type |-> type, create |-> create, rollback |-> rollback]

Rollback(children) == [nil |-> FALSE, children |-> children]

\* The bodies of a node: a nil V1, no node type, a create node (its Create
\* nil or not), a rollback node (its Rollback nil or not; child <<57>> is
\* the id of no node).
HashV1Nodes ==
    {NilPointer, V1Node("none", NilPointer, NilPointer)}
        \cup {V1Node("create", c, NilPointer) : c \in HashCreates}
        \cup {V1Node("rollback", NilPointer, r) :
                  r \in {NilPointer, Rollback(<<>>), Rollback(<<<<49>>>>),
                         Rollback(<<<<49>>, <<57>>>>)}}

Node(nodeId, versioned, v1) == [nodeId |-> nodeId, versioned |-> versioned, v1 |-> v1]

HashNodes(nodeId, bodies) ==
    {Node(nodeId, "none", NilPointer)} \cup {Node(nodeId, "v1", v) : v \in bodies}

\* Node lists: none, node 0, or node 0 and a node 1 that is never a
\* rollback node (the node graph has no cycle).
HashNodeLists ==
    {<<>>}
        \cup {<<n>> : n \in HashNodes(<<48>>, HashV1Nodes)}
        \cup {<<n, m>> : n \in HashNodes(<<48>>, HashV1Nodes),
                         m \in HashNodes(<<49>>, {V1Node("create", c, NilPointer) :
                                                      c \in HashCreates})}

DamlTransactions ==
    {NilPointer}
        \cup [nil : {FALSE}, version : {<<50>>},
              roots : {<<>>, <<<<48>>>>, <<<<48>>, <<49>>>>, <<<<57>>>>},
              nodes : HashNodeLists,
              nodeSeeds : {<<>>, <<[nodeId |-> 0, seed |-> <<7>>]>>}]

HashInputContracts ==
    {[createdAt |-> 3, contract |-> "none", v1 |-> NilPointer]}
        \cup {[createdAt |-> 3, contract |-> "v1", v1 |-> c] : c \in HashCreates}

Metadatas ==
    {NilPointer}
        \cup [nil : {FALSE},
              submitterInfo : {NilPointer,
                               [nil |-> FALSE, actAs |-> <<<<97>>>>, commandId |-> <<99>>]},
              transactionUuid : {<<117>>},
              mediatorGroup : {1},
              synchronizerId : {<<115>>},
              minLedgerEffectiveTime : {NilPointer, [nil |-> FALSE, v |-> 5]},
              maxLedgerEffectiveTime : {NilPointer},
              preparationTime : {7},
              inputContracts : SeqsUpTo(HashInputContracts, MaxInputContracts)]

PreparedTransactions ==
    {NilPointer}
        \cup [nil : {FALSE}, transaction : DamlTransactions, metadata : Metadatas]

HashInit ==
    /\ WrapIdle
    /\ CodecIdle
    /\ TopoIdle
    /\ AuxIdle
    /\ hIn \in PreparedTransactions
    /\ hOut = NoResult
    /\ hPc = "start"
    /\ hMaps = NoMaps
    /\ hTxHash = <<>>
    /\ hMetaHash = <<>>
    /\ hFirst = NoResult
    /\ hCalls = 1

\* HashPreparedTransaction: the nil test.
HashEnter ==
    /\ hPc = "start"
    /\ IF hIn.nil
       THEN hOut' = [kind |-> "error", v |-> <<>>] /\ hPc' = "done"
       ELSE hOut' = hOut /\ hPc' = "maps"
    /\ UNCHANGED <<hIn, hFirst, hCalls, hMaps, hTxHash, hMetaHash, wrapVars, codecVars, topoVars, auxVars>>

\* HashPreparedTransaction: buildNodesAndSeedsMap(tx.Transaction).
HashBuildMaps ==
    /\ hPc = "maps"
    /\ hMaps' = buildNodesAndSeedsMap(hIn.transaction)
    /\ hPc' = "tx"
    /\ UNCHANGED <<hIn, hFirst, hCalls, hOut, hTxHash, hMetaHash, wrapVars, codecVars, topoVars, auxVars>>

\* HashPreparedTransaction: hashTransaction(damlTx, nodesMap, seedsMap).
HashTransactionStep ==
    /\ hPc = "tx"
    /\ IF encodeTransactionPanics(hIn.transaction, hMaps.nodes)
       THEN /\ hOut' = [kind |-> "panic", v |-> <<>>]
            /\ hPc' = "done"
            /\ hTxHash' = hTxHash
       ELSE /\ hTxHash' = hashTransaction(hIn.transaction, hMaps.nodes, hMaps.seeds)
            /\ hPc' = "meta"
            /\ hOut' = hOut
    /\ UNCHANGED <<hIn, hFirst, hCalls, hMaps, hMetaHash, wrapVars, codecVars, topoVars, auxVars>>

\* HashPreparedTransaction: hashMetadata(tx.Metadata, nodesMap, seedsMap).
HashMetadataStep ==
    /\ hPc = "meta"
    /\ IF encodeMetadataPanics(hIn.metadata)
       THEN /\ hOut' = [kind |-> "panic", v |-> <<>>]
            /\ hPc' = "done"
            /\ hMetaHash' = hMetaHash
       ELSE /\ hMetaHash' = hashMetadata(hIn.metadata, hMaps.nodes, hMaps.seeds)
            /\ hPc' = "sum"
            /\ hOut' = hOut
    /\ UNCHANGED <<hIn, hFirst, hCalls, hMaps, hTxHash, wrapVars, codecVars, topoVars, auxVars>>

\* The final digest, had the hasher been shared by the calls and never
\* reset: it has absorbed what the first call produced.
HashSumSharedHasher ==
    /\ hPc = "sum"
    /\ hOut' = [kind |-> "hash",
                v |-> Sha256(hFirst.v \o PreparedTransactionHashPurpose
                                 \o HashingSchemeVersionByte \o hTxHash \o hMetaHash)]
    /\ hPc' = "done"
    /\ UNCHANGED <<hIn, hFirst, hCalls, hMaps, hTxHash, hMetaHash, wrapVars, codecVars,
                   topoVars, auxVars>>

\* HashPreparedTransaction: the final digest, of a hasher made by the call.
HashSum ==
    /\ hPc = "sum"
    /\ hOut' = [kind |-> "hash",
                v |-> Sha256(PreparedTransactionHashPurpose \o HashingSchemeVersionByte
                                 \o hTxHash \o hMetaHash)]
    /\ hPc' = "done"
    /\ UNCHANGED <<hIn, hFirst, hCalls, hMaps, hTxHash, hMetaHash, wrapVars, codecVars, topoVars, auxVars>>

\* A second, independent call of HashPreparedTransaction on the same input.
\* The maps and hashes of the first call are what it left behind; the call
\* makes its own.
HashAgain ==
    /\ hPc = "done"
    /\ hCalls = 1
    /\ hFirst' = hOut
    /\ hCalls' = 2
    /\ hOut' = NoResult
    /\ hPc' = "start"
    /\ UNCHANGED <<hIn, hMaps, hTxHash, hMetaHash, wrapVars, codecVars, topoVars, auxVars>>

HashNext ==
    \/ HashEnter
    \/ HashBuildMaps
    \/ HashTransactionStep
    \/ HashMetadataStep
    \/ HashSum
    \/ HashAgain

SpecHash == HashInit /\ [][HashNext]_vars

-----------------------------------------------------------------------------
(* The data reader (pkg/io/io.go).  A Go string is a sequence of bytes; the
   characters of the model are given by their ASCII codes. *)

\* ASCII: the capital letters from code 65, the small letters from code 97,
\* the digits from code 48, and the punctuation the specifiers use.
Capitals ==
    <<"A", "B", "C", "D", "E", "F", "G", "H", "I", "J", "K", "L", "M",
      "N", "O", "P", "Q", "R", "S", "T", "U", "V", "W", "X", "Y", "Z">>

Smalls ==
    <<"a", "b", "c", "d", "e", "f", "g", "h", "i", "j", "k", "l", "m",
      "n", "o", "p", "q", "r", "s", "t", "u", "v", "w", "x", "y", "z">>

Digits == <<"0", "1", "2", "3", "4", "5", "6", "7", "8", "9">>

IndexOf(chars, ch) == CHOOSE i \in DOMAIN chars : chars[i] = ch

Ascii(ch) ==
    IF \E i \in DOMAIN Capitals : Capitals[i] = ch THEN 64 + IndexOf(Capitals, ch)
    ELSE IF \E i \in DOMAIN Smalls : Smalls[i] = ch THEN 96 + IndexOf(Smalls, ch)
    ELSE IF \E i \in DOMAIN Digits : Digits[i] = ch THEN 47 + IndexOf(Digits, ch)
    ELSE CASE ch = "+" -> 43
           [] ch = "-" -> 45
           [] ch = "." -> 46
           [] ch = "/" -> 47
           [] ch = ":" -> 58
           [] ch = "=" -> 61
           [] ch = "@" -> 64
           [] ch = "_" -> 95

\* The Go string literal written with the characters chars.
GoString(chars) == [i \in DOMAIN chars |-> Ascii(chars[i])]

\* strings.HasPrefix, strings.TrimPrefix and strings.HasSuffix.
HasPrefix(s, prefix) ==
    /\ Len(s) >= Len(prefix)
    /\ SubSeq(s, 1, Len(prefix)) = prefix

TrimPrefix(s, prefix) ==
    IF HasPrefix(s, prefix) THEN SubSeq(s, Len(prefix) + 1, Len(s)) ELSE s

HasSuffix(s, suffix) ==
    /\ Len(s) >= Len(suffix)
    /\ SubSeq(s, Len(s) - Len(suffix) + 1, Len(s)) = suffix

\* encoding/base64: the two alphabets, as the character of each 6-bit value.
encodeStd ==
    GoString(<<"A", "B", "C", "D", "E", "F", "G", "H", "I", "J", "K", "L", "M", "N", "O", "P",
               "Q", "R", "S", "T", "U", "V", "W", "X", "Y", "Z", "a", "b", "c", "d", "e", "f",
               "g", "h", "i", "j", "k", "l", "m", "n", "o", "p", "q", "r", "s", "t", "u", "v",
               "w", "x", "y", "z", "0", "1", "2", "3", "4", "5", "6", "7", "8", "9", "+", "/">>)

encodeURL ==
    [i \in DOMAIN encodeStd |->
        IF encodeStd[i] = Ascii("+") THEN Ascii("-")
        ELSE IF encodeStd[i] = Ascii("/") THEN Ascii("_")
        ELSE encodeStd[i]]

StdPadding == Ascii("=")

\* The 6-bit value of character c under the alphabet enc, -1 if it has none.
decodeMap(enc, c) ==
    IF \E i \in DOMAIN enc : enc[i] = c
    THEN (CHOOSE i \in DOMAIN enc : enc[i] = c) - 1
    ELSE -1

Pow2(n) == IF n = 0 THEN 1 ELSE IF n = 2 THEN 4 ELSE 16

\* The k-th byte (from 0) of the bit string spelled by the 6-bit values vals.
DecodedByte(vals, k) ==
    LET i == (8 * k) \div 6
        off == (8 * k) % 6
    IN  ((vals[i + 1] * 64 + vals[i + 2]) \div Pow2(4 - off)) % 256

\* Encoding.DecodeString of a padded encoding: the input is a whole number of
\* 4-character quanta, padding ("xx==" or "xxx=") only ends the last one.
DecodeString(enc, s) ==
    LET n == Len(s)
        pad == IF n = 0 \/ s[n] # StdPadding THEN 0
               ELSE IF n >= 2 /\ s[n - 1] = StdPadding THEN 2 ELSE 1
        vals == [i \in 1..(n - pad) |-> decodeMap(enc, s[i])]
    IN  IF n % 4 # 0 THEN Fail("base64")
        ELSE IF \E i \in 1..(n - pad) : vals[i] = -1 THEN Fail("base64")
        ELSE Ok([k \in 1..(((n - pad) * 6) \div 8) |-> DecodedByte(vals, k - 1)])

\* os.ReadFile: the bytes of a regular file; a missing path or a directory
\* is an error.
RegularFile(b) == [dir |-> FALSE, data |-> b]
Directory == [dir |-> TRUE, data |-> <<>>]

ReadFile(fs, path) ==
    IF path \notin DOMAIN fs THEN Fail("read_file")
    ELSE IF fs[path].dir THEN Fail("read_file")
    ELSE Ok(fs[path].data)

\* ReadData, the switch: it sets rawData, or returns a value from inside the
\* switch.  returned tells which.
RawData(rawData, isBase64) == [returned |-> FALSE, out |-> Ok(rawData), isBase64 |-> isBase64]
Returns(out) == [returned |-> TRUE, out |-> out, isBase64 |-> FALSE]

\* The default branch, the input not being treated as base64 regardless of
\* its shape (the branch without the autodetection).
ResolveLiteralPlain(input, isBase64) == RawData(input, isBase64)

\* The default branch after the "base64:" prefix was handled.
ResolveLiteral(input, isBase64) ==
    LET decoded == DecodeString(encodeStd, input)
    IN  IF ~isBase64 /\ Len(input) > 0 /\ decoded.ok
           /\ (Len(input) > 16 \/ HasSuffix(input, GoString(<<"=">>)))
        THEN Returns(decoded)
        ELSE RawData(input, isBase64)

Base64Prefix == GoString(<<"b", "a", "s", "e", "6", "4", ":">>)

ResolveSource(input, isBase64, stdin, fs) ==
    IF input = GoString(<<"-">>)
    THEN (IF stdin.ok THEN RawData(stdin.v, isBase64) ELSE Returns(Fail("read_stdin")))
    ELSE IF HasPrefix(input, GoString(<<"@">>))
    THEN LET read == ReadFile(fs, TrimPrefix(input, GoString(<<"@">>)))
         IN  IF read.ok THEN RawData(read.v, isBase64) ELSE Returns(read)
    ELSE IF HasPrefix(input, Base64Prefix)
    THEN ResolveLiteral(TrimPrefix(input, Base64Prefix), TRUE)
    ELSE ResolveLiteral(input, isBase64)

\* ReadData, after the switch: the base64 decoding of rawData, the standard
\* alphabet first and the URL-safe one second.
DecodeStdOnly(rawData, isBase64) ==
    IF ~isBase64 THEN Ok(rawData)
    ELSE LET std == DecodeString(encodeStd, rawData)
         IN  IF std.ok THEN std ELSE Fail("decode_base64")

DecodeResolved(rawData, isBase64) ==
    IF ~isBase64 THEN Ok(rawData)
    ELSE LET std == DecodeString(encodeStd, rawData)
             url == DecodeString(encodeURL, rawData)
         IN  IF std.ok THEN std
             ELSE IF url.ok THEN url
             ELSE Fail("decode_base64")

-----------------------------------------------------------------------------
(* The reader specification: ReadData on bounded specifiers, standard inputs
   and file systems *)

\* Literal texts: not base64 ("hello"), base64 without padding of at most 16
\* characters ("root", and one of exactly 16), padded base64, base64 of more
\* than 16 characters, URL-safe base64, and the empty string.
ReadTexts ==
    { <<>>,
      GoString(<<"h", "e", "l", "l", "o">>),
      GoString(<<"r", "o", "o", "t">>),
      GoString(<<"a", "G", "k", "=">>),
      GoString(<<"a", "A", "=", "=">>),
      GoString(<<"-", "_", "-", "_">>),
      GoString(<<"a", "G", "V", "s", "b", "G", "8", "g", "d", "2", "9", "y", "b", "G", "Q", "h">>),
      GoString(<<"a", "G", "V", "s", "b", "G", "8", "g", "d", "2", "9", "y", "b", "G", "Q", "h",
                 "I", "S", "E", "h">>) }

ReadPrefixes == { <<>>, GoString(<<"@">>), Base64Prefix }

ReadSpecifiers ==
    {GoString(<<"-">>)} \cup {prefix \o text : prefix \in ReadPrefixes, text \in ReadTexts}

ReadStdins ==
    { Fail("io"),
      Ok(GoString(<<"a", "G", "k", "=">>)),
      Ok(GoString(<<"h", "e", "l", "l", "o">>)) }

\* The file systems: empty; a regular file named root or aGk= or one named
\* like the long base64 text; a directory named root.
ReadPaths ==
    { GoString(<<"r", "o", "o", "t">>),
      GoString(<<"a", "G", "k", "=">>),
      GoString(<<"h", "e", "l", "l", "o">>) }

ReadFileSystems ==
    {EmptyObj}
    \cup {[p \in {path} |-> RegularFile(data)] :
             path \in ReadPaths,
             data \in {GoString(<<"-", "_", "-", "_">>), GoString(<<"a", "G", "k", "=">>)}}
    \cup {[p \in {GoString(<<"r", "o", "o", "t">>)} |-> Directory]}

ReadInit ==
    /\ NotReadIdle
    /\ rdInput \in ReadSpecifiers
    /\ rdIsBase64 \in BOOLEAN
    /\ rdStdin \in ReadStdins
    /\ rdFs \in ReadFileSystems
    /\ rdRaw = <<>>
    /\ rdOut = Unset
    /\ rdPc = "start"

\* ReadData up to the end of the switch: an error or the autodetected
\* decoding returns at once, otherwise rawData is set.
ReadSwitch ==
    /\ rdPc = "start"
    /\ \E r \in {ResolveSource(rdInput, rdIsBase64, rdStdin, rdFs)} :
          IF r.returned
          THEN /\ rdOut' = r.out
               /\ rdPc' = "done"
               /\ UNCHANGED <<rdRaw, rdIsBase64>>
          ELSE /\ rdRaw' = r.out.v
               /\ rdIsBase64' = r.isBase64
               /\ rdPc' = "resolved"
               /\ UNCHANGED rdOut
    /\ UNCHANGED <<rdInput, rdStdin, rdFs, notReadVars>>

\* ReadData after the switch.
ReadDecode ==
    /\ rdPc = "resolved"
    /\ rdOut' = DecodeResolved(rdRaw, rdIsBase64)
    /\ rdPc' = "done"
    /\ UNCHANGED <<rdInput, rdIsBase64, rdStdin, rdFs, rdRaw, notReadVars>>

ReadNext ==
    \/ ReadSwitch
    \/ ReadDecode

SpecRead == ReadInit /\ [][ReadNext]_vars

-----------------------------------------------------------------------------
(* Properties of the reader *)

ReadsStdin == rdInput = GoString(<<"-">>)
ReadsFile == ~ReadsStdin /\ HasPrefix(rdInput, GoString(<<"@">>))
ReadsLiteral == ~ReadsStdin /\ ~HasPrefix(rdInput, GoString(<<"@">>))

\* The specifier names a regular file of the disk but has no "@" prefix.
NamesFileWithoutAt ==
    /\ ReadsLiteral
    /\ rdInput \in DOMAIN rdFs
    /\ ~rdFs[rdInput].dir

(* C11: a specifier that is not "-", does not start with "@" and refers to
   an existing regular file fails with the missing-'@'-prefix error and
   returns no bytes, instead of being treated as a literal payload. *)
C11_MissingAtPrefixError ==
    (rdPc = "done" /\ NamesFileWithoutAt) => rdOut = Fail("missing_at_prefix")

\* The autodetection condition of the literal branch.
LooksLikeBase64(input) ==
    /\ DecodeString(encodeStd, input).ok
    /\ \/ Len(input) > 16
       \/ (Len(input) > 0 /\ input[Len(input)] = Ascii("="))

\* The literal branch with the base64 flag unset and no "base64:" prefix.
PlainLiteral ==
    /\ ReadsLiteral
    /\ ~HasPrefix(rdInput, Base64Prefix)
    /\ ~rdIsBase64

(* C12: in the literal branch with the base64 flag unset, ReadData returns
   the standard-base64 decoding of the input when the input decodes as
   standard base64 and is longer than 16 characters or ends with "=", and
   the literal bytes of the input in every other case; "hello" and "root"
   are returned literally. *)
C12_AutodetectIff ==
    (rdPc = "done" /\ PlainLiteral) =>
        /\ LooksLikeBase64(rdInput) => rdOut = DecodeString(encodeStd, rdInput)
        /\ ~LooksLikeBase64(rdInput) => rdOut = Ok(rdInput)
        /\ rdInput = GoString(<<"h", "e", "l", "l", "o">>) => rdOut = Ok(<<104, 101, 108, 108, 111>>)
        /\ rdInput = GoString(<<"r", "o", "o", "t">>) => rdOut = Ok(<<114, 111, 111, 116>>)
        /\ rdInput = GoString(<<"a", "G", "k", "=">>) => rdOut = Ok(<<104, 105>>)

\* A literal of 20 base64 characters was decoded to its 15 bytes.
C12_Witness ==
    /\ rdPc = "done"
    /\ PlainLiteral
    /\ Len(rdInput) = 20
    /\ rdOut.ok
    /\ Len(rdOut.v) = 15
    /\ rdOut.v[1] = 104

\* The bytes ReadData resolves the specifier to, before any decoding.
SourceBytes ==
    IF ReadsStdin THEN rdStdin
    ELSE IF ReadsFile THEN ReadFile(rdFs, SubSeq(rdInput, 2, Len(rdInput)))
    ELSE Ok(TrimPrefix(rdInput, Base64Prefix))

\* The base64 flag is set or the literal carried the "base64:" prefix.
DecodingRequested ==
    \/ rdIsBase64
    \/ (ReadsLiteral /\ HasPrefix(rdInput, Base64Prefix))

(* C13: when the base64 flag is set or the literal carried the "base64:"
   prefix, ReadData decodes the resolved bytes (from stdin, a file or the
   literal) with the standard alphabet, and with the URL-safe alphabet when
   that fails; when both fail it returns the base64 decode error and no
   bytes. *)
C13_DecodeStdThenURL ==
    (rdPc = "done" /\ DecodingRequested /\ SourceBytes.ok) =>
        LET std == DecodeString(encodeStd, SourceBytes.v)
            url == DecodeString(encodeURL, SourceBytes.v)
        IN  /\ std.ok => rdOut = std
            /\ (~std.ok /\ url.ok) => rdOut = url
            /\ (~std.ok /\ ~url.ok) => rdOut = Fail("decode_base64")

\* A file holding URL-safe base64 that is not standard base64 was decoded.
C13_Witness ==
    /\ rdPc = "done"
    /\ ReadsFile
    /\ rdIsBase64
    /\ SourceBytes = Ok(GoString(<<"-", "_", "-", "_">>))
    /\ rdOut = Ok(<<251, 255, 191>>)

-----------------------------------------------------------------------------
(* The leaf-change specification: HashPreparedTransaction on a well-formed
   prepared transaction and on the same transaction with one leaf field
   changed *)

\* HashPreparedTransaction of a transaction on which no step panics.
HashWithMaps(tx, maps) ==
    Sha256(PreparedTransactionHashPurpose \o HashingSchemeVersionByte
               \o hashTransaction(tx.transaction, maps.nodes, maps.seeds)
               \o hashMetadata(tx.metadata, maps.nodes, maps.seeds))

HashPreparedTransaction(tx) == HashWithMaps(tx, buildNodesAndSeedsMap(tx.transaction))

\* A create node of contract contractId (a string of hex digits).
LeafCreate(contractId) ==
    [nil |-> FALSE, lfVersion |-> GoString(<<"2">>), contractId |-> contractId,
     packageName |-> GoString(<<"p">>),
     templateId |-> [nil |-> FALSE, packageId |-> GoString(<<"p">>),
                     moduleName |-> GoString(<<"M">>) \o <<46>> \o GoString(<<"N">>),
                     entityName |-> GoString(<<"E">>)],
     argument |-> [kind |-> "text", b |-> FALSE, n |-> 0, s |-> GoString(<<"t">>)],
     signatories |-> <<GoString(<<"a">>)>>,
     stakeholders |-> <<GoString(<<"a">>), GoString(<<"b">>)>>]

\* Well-formed prepared transactions: one root, the create node "0" with its
\* seed, every metadata field set, one input contract.
LeafContractIds == {GoString(<<"a", "b">>), GoString(<<"0", "0", "c", "d">>)}

LeafBase(contractId) ==
    [nil |-> FALSE,
     transaction |->
        [nil |-> FALSE, version |-> GoString(<<"2">>), roots |-> <<GoString(<<"0">>)>>,
         nodes |-> <<Node(GoString(<<"0">>), "v1",
                          V1Node("create", LeafCreate(contractId), NilPointer))>>,
         nodeSeeds |-> <<[nodeId |-> 0, seed |-> <<7>>]>>],
     metadata |->
        [nil |-> FALSE,
         submitterInfo |-> [nil |-> FALSE, actAs |-> <<GoString(<<"a">>)>>,
                            commandId |-> GoString(<<"c">>)],
         transactionUuid |-> GoString(<<"u">>),
         mediatorGroup |-> 1,
         synchronizerId |-> GoString(<<"s">>),
         minLedgerEffectiveTime |-> [nil |-> FALSE, v |-> 5],
         maxLedgerEffectiveTime |-> [nil |-> FALSE, v |-> 6],
         preparationTime |-> 7,
         inputContracts |-> <<[createdAt |-> 3, contract |-> "v1",
                               v1 |-> LeafCreate(GoString(<<"a", "b">>))]>>]]

LeafBases == {LeafBase(id) : id \in LeafContractIds}

\* The leaf fields of a prepared transaction: strings, bytes and integers.
LeafStringFields ==
    {"version", "root", "nodeId", "lfVersion", "contractId", "packageName", "packageId",
     "moduleName", "entityName", "text", "signatory", "stakeholder", "actAs", "commandId",
     "transactionUuid", "synchronizerId", "inputContractId"}

LeafBytesFields == {"seed"}

LeafIntFields ==
    {"seedNodeId", "mediatorGroup", "minLedgerEffectiveTime", "maxLedgerEffectiveTime",
     "preparationTime", "createdAt"}

LeafStrings ==
    {<<>>, GoString(<<"a", "b">>), GoString(<<"a", "B">>), GoString(<<"a", "b", "c">>),
     GoString(<<"a", "b", "d">>), GoString(<<"a", "g">>), GoString(<<"0">>),
     GoString(<<"0", "0", "c", "d">>), GoString(<<"0", "0", "C", "D">>)}

LeafBytes == {<<>>, <<7>>, <<8>>, <<7, 0>>}

LeafInts == {0, 1, 3, 5, 6, 7, 300}

\* The transaction t with its leaf field set to v.
SetLeaf(t, field, v) ==
    CASE field = "version" -> [t EXCEPT !.transaction.version = v]
      [] field = "root" -> [t EXCEPT !.transaction.roots[1] = v]
      [] field = "nodeId" -> [t EXCEPT !.transaction.nodes[1].nodeId = v]
      [] field = "lfVersion" -> [t EXCEPT !.transaction.nodes[1].v1.create.lfVersion = v]
      [] field = "contractId" -> [t EXCEPT !.transaction.nodes[1].v1.create.contractId = v]
      [] field = "packageName" -> [t EXCEPT !.transaction.nodes[1].v1.create.packageName = v]
      [] field = "packageId" ->
            [t EXCEPT !.transaction.nodes[1].v1.create.templateId.packageId = v]
      [] field = "moduleName" ->
            [t EXCEPT !.transaction.nodes[1].v1.create.templateId.moduleName = v]
      [] field = "entityName" ->
            [t EXCEPT !.transaction.nodes[1].v1.create.templateId.entityName = v]
      [] field = "text" -> [t EXCEPT !.transaction.nodes[1].v1.create.argument.s = v]
      [] field = "signatory" ->
            [t EXCEPT !.transaction.nodes[1].v1.create.signatories[1] = v]
      [] field = "stakeholder" ->
            [t EXCEPT !.transaction.nodes[1].v1.create.stakeholders[2] = v]
      [] field = "seed" -> [t EXCEPT !.transaction.nodeSeeds[1].seed = v]
      [] field = "seedNodeId" -> [t EXCEPT !.transaction.nodeSeeds[1].nodeId = v]
      [] field = "actAs" -> [t EXCEPT !.metadata.submitterInfo.actAs[1] = v]
      [] field = "commandId" -> [t EXCEPT !.metadata.submitterInfo.commandId = v]
      [] field = "transactionUuid" -> [t EXCEPT !.metadata.transactionUuid = v]
      [] field = "synchronizerId" -> [t EXCEPT !.metadata.synchronizerId = v]
      [] field = "mediatorGroup" -> [t EXCEPT !.metadata.mediatorGroup = v]
      [] field = "minLedgerEffectiveTime" ->
            [t EXCEPT !.metadata.minLedgerEffectiveTime.v = v]
      [] field = "maxLedgerEffectiveTime" ->
            [t EXCEPT !.metadata.maxLedgerEffectiveTime.v = v]
      [] field = "preparationTime" -> [t EXCEPT !.metadata.preparationTime = v]
      [] field = "createdAt" -> [t EXCEPT !.metadata.inputContracts[1].createdAt = v]
      [] field = "inputContractId" ->
            [t EXCEPT !.metadata.inputContracts[1].v1.contractId = v]

LeafValues(field) ==
    IF field \in LeafStringFields THEN LeafStrings
    ELSE IF field \in LeafBytesFields THEN LeafBytes
    ELSE LeafInts

LeafInit ==
    /\ NotLeafIdle
    /\ lfBase \in LeafBases
    /\ lfField \in LeafStringFields \cup LeafBytesFields \cup LeafIntFields
    /\ lfChanged \in {SetLeaf(lfBase, lfField, v) : v \in LeafValues(lfField)}
    /\ lfChanged # lfBase
    /\ lfHashBase = <<>>
    /\ lfHashChanged = <<>>
    /\ lfPc = "start"

\* HashPreparedTransaction(lfBase)
LeafHashBase ==
    /\ lfPc = "start"
    /\ lfHashBase' = HashPreparedTransaction(lfBase)
    /\ lfPc' = "base"
    /\ UNCHANGED <<lfBase, lfField, lfChanged, lfHashChanged, notLeafVars>>

\* HashPreparedTransaction(lfChanged)
LeafHashChanged ==
    /\ lfPc = "base"
    /\ lfHashChanged' = HashPreparedTransaction(lfChanged)
    /\ lfPc' = "done"
    /\ UNCHANGED <<lfBase, lfField, lfChanged, lfHashBase, notLeafVars>>

LeafNext ==
    \/ LeafHashBase
    \/ LeafHashChanged

SpecLeaf == LeafInit /\ [][LeafNext]_vars

-----------------------------------------------------------------------------
(* Properties of the leaf-change specification *)

(* C15: changing any single leaf string, bytes or integer field of a
   well-formed prepared transaction (in the transaction nodes, the node
   seeds or the metadata) changes the hashed pre-image and therefore the
   hash: no two transactions that differ in exactly one leaf field have the
   same hash. *)
C15_LeafChangeChangesHash ==
    lfPc = "done" => lfHashChanged # lfHashBase

-----------------------------------------------------------------------------
(* The sign/verify specification: Sign, then VerifySignature of the
   signature or of another one *)

SignMessages == {<<>>, <<5>>, <<5, 6>>}

SignAlgos == {"ed25519", "ecdsa256", "ecdsa384", "rsa2048"}

SignPrivateKeys == {GarbageKey} \cup UNION {PrivateKeys(k) : k \in SignKeys}

\* Public key data: the DER of a key, or bytes that do not parse.
SignPublicKeys == {<<9>>} \cup {PubKey(k) : k \in SignKeys}

\* Algorithm specs: the three enum values the code names, and UNSPECIFIED.
SignSpecs == 0..3

SignInit ==
    /\ NotSignIdle
    /\ sgMessage \in SignMessages
    /\ sgPriv \in SignPrivateKeys
    /\ sgAlgo \in SignAlgos
    /\ sgPub \in SignPublicKeys
    /\ sgSpec \in SignSpecs
    /\ sgSigned = Unset
    /\ sgSignature = <<>>
    /\ sgOut = Unset
    /\ sgPc = "start"

\* Sign(message, privateKeyData, algo)
SignStep ==
    /\ sgPc = "start"
    /\ sgSigned' = Sign(sgMessage, sgPriv, sgAlgo)
    /\ sgSignature' = sgSigned'.v
    /\ sgPc' = "signed"
    /\ UNCHANGED <<sgMessage, sgPriv, sgAlgo, sgPub, sgSpec, sgOut, notSignVars>>

\* The signature is replaced before it is verified: by no bytes, or by the
\* signature of another message under the same key and algorithm.
SignReplace ==
    /\ sgPc = "signed"
    /\ sgSigned.ok
    /\ sgSignature = sgSigned.v
    /\ sgSignature' \in {<<>>, Sign(sgMessage \o <<7>>, sgPriv, sgAlgo).v}
    /\ UNCHANGED <<sgMessage, sgPriv, sgAlgo, sgPub, sgSpec, sgSigned, sgOut, sgPc,
                   notSignVars>>

\* VerifySignature(message, signature, publicKeyData, algoSpec)
VerifyStep ==
    /\ sgPc = "signed"
    /\ sgOut' = VerifySignature(sgMessage, sgSignature, sgPub, sgSpec)
    /\ sgPc' = "verified"
    /\ UNCHANGED <<sgMessage, sgPriv, sgAlgo, sgPub, sgSpec, sgSigned, sgSignature,
                   notSignVars>>

SignNext ==
    \/ SignStep
    \/ SignReplace
    \/ VerifyStep

SpecSign == SignInit /\ [][SignNext]_vars

-----------------------------------------------------------------------------
(* Properties of the sign/verify specification *)

\* The key type an algorithm name signs with.
AlgoKeyType(algo) == IF algo = "ed25519" THEN "ed25519" ELSE "ecdsa"

\* sgPriv and sgPub are the two halves of one key of the type of sgAlgo.
MatchingPair ==
    \E k \in SignKeys :
        /\ KeyType(k) = AlgoKeyType(sgAlgo)
        /\ sgPriv \in PrivateKeys(k)
        /\ sgPub = PubKey(k)

(* C16: sign/verify round trip: for every message, every algorithm name of
   ed25519, ecdsa256 and ecdsa384 and every key pair of the matching key
   type, Sign succeeds and VerifySignature of its signature, under the
   public key and the algorithm spec GetSignatureMetadata maps the name to,
   returns true with no error. *)
C16_SignVerifyRoundTrip ==
    (/\ sgPc = "verified"
     /\ sgAlgo \in {"ed25519", "ecdsa256", "ecdsa384"}
     /\ MatchingPair
     /\ sgSignature = sgSigned.v
     /\ sgSpec = GetSignatureMetadata(sgAlgo).algorithm)
        => (sgSigned.ok /\ sgOut = Ok(TRUE))

\* A P-384 key signed under ecdsa384 from its SEC 1 encoding, and the
\* signature verified.
C16_Witness ==
    /\ sgPc = "verified"
    /\ sgAlgo = "ecdsa384"
    /\ sgPriv = PrivateKeyData("sec1", "ecdsa", KeyByte("ec2"))
    /\ sgPub = PubKey("ec2")
    /\ sgSpec = 3
    /\ sgMessage = <<5, 6>>
    /\ sgSignature = sgSigned.v
    /\ sgOut = Ok(TRUE)

\* The key type an algorithm spec verifies with.
SpecKeyType(spec) == IF spec = 1 THEN "ed25519" ELSE "ecdsa"

\* The public key parses and is of the type of the (supported) spec.
WellTypedKey ==
    /\ ParsePKIXPublicKey(sgPub).ok
    /\ sgSpec \in {1, 2, 3}
    /\ ParsePKIXPublicKey(sgPub).type = SpecKeyType(sgSpec)

\* The signature given to VerifySignature is one the private half of the
\* public key makes of the message.
SignatureMatches ==
    \E k \in SignKeys :
        /\ sgPub = PubKey(k)
        /\ \E priv \in PrivateKeys(k), algo \in {"ed25519", "ecdsa256", "ecdsa384"} :
               /\ Sign(sgMessage, priv, algo).ok
               /\ sgSignature = Sign(sgMessage, priv, algo).v

(* C17 as stated: an algorithm spec outside the three supported enum names
   yields an unsupported-algorithm error, whatever the public key. *)
C17_UnsupportedSpecAlways ==
    (sgPc = "verified" /\ sgSpec \notin {1, 2, 3})
        => sgOut = Fail("unsupported_algorithm_spec")

(* C17: VerifySignature distinguishes error from invalid.  A public key that
   does not parse yields the key parse error, whatever the spec; with a key
   that parses, a spec outside the three supported enum names yields the
   unsupported-algorithm error and a key whose type does not match the spec
   yields an error; the non-error result false is returned exactly for a
   well-typed key and a signature that does not match. *)
C17_ErrorOrInvalid ==
    sgPc = "verified" =>
        /\ ~ParsePKIXPublicKey(sgPub).ok => sgOut = Fail("parse_public_key")
        /\ (ParsePKIXPublicKey(sgPub).ok /\ sgSpec \notin {1, 2, 3})
               => sgOut = Fail("unsupported_algorithm_spec")
        /\ (ParsePKIXPublicKey(sgPub).ok /\ sgSpec \in {1, 2, 3} /\ ~WellTypedKey)
               => (~sgOut.ok /\ sgOut.err \in {"not_ed25519_key", "not_ecdsa_key"})
        /\ sgOut = Ok(FALSE) <=> (WellTypedKey /\ ~SignatureMatches)
        /\ sgOut = Ok(TRUE) <=> (WellTypedKey /\ SignatureMatches)

\* A well-typed key and the signature of another message: false, no error.
C17_Witness ==
    /\ sgPc = "verified"
    /\ WellTypedKey
    /\ sgSigned.ok
    /\ sgSignature # sgSigned.v
    /\ sgSignature # <<>>
    /\ sgOut = Ok(FALSE)

-----------------------------------------------------------------------------
(* The template generator (package template): GenerateJSONTemplate,
   getExampleValue and getSingleExampleValue, as a machine over the stack of
   active calls.  The goroutine stack is bounded; a call that does not fit
   ends the program with a stack overflow. *)

\* the number of nested GenerateJSONTemplate calls the stack holds
MaxCallDepth == 4

\* A field descriptor: its name, whether it is a list or a map, its kind
\* (the kind of the map value for a map), and the message or enum values of
\* a message or enum kind.
Field(name, card, kind, message, values) ==
    [name |-> name, card |-> card, kind |-> kind, message |-> message, values |-> values]

\* A value of an enum, in the order of declaration.
EnumValue(name, number) == [name |-> name, number |-> number]

\* enum E { ZERO = 0; ONE = 1; }, the proto2 enum P { ONE = 1; ZERO = 0; }
\* and the proto2 enum Q { FIRST = 1; SECOND = 2; }
EnumE == <<EnumValue("ZERO", 0), EnumValue("ONE", 1)>>
EnumP == <<EnumValue("ONE", 1), EnumValue("ZERO", 0)>>
EnumQ == <<EnumValue("FIRST", 1), EnumValue("SECOND", 2)>>

Scalar(name, kind) == Field(name, "single", kind, "", <<>>)
MessageField(name, card, message) == Field(name, card, "message", message, <<>>)

\* most fields of a message of the generated schemas
MaxFields == 2

\* Schemas of two messages A and B, their fields drawn from pools: A may hold
\* B (single or repeated) and itself, B may hold A through a map.
FieldPoolA ==
    {Scalar("s", "string"), Field("e", "single", "enum", "", EnumE),
     Field("p", "single", "enum", "", EnumP), Field("qs", "list", "enum", "", EnumQ),
     MessageField("b", "single", "B"), MessageField("bs", "list", "B"),
     MessageField("self", "single", "A")}

FieldPoolB == {Scalar("n", "uint64"), MessageField("back", "map", "A")}

GeneratedSchemas ==
    {[A |-> fa, B |-> fb] : fa \in SeqsUpTo(FieldPoolA, MaxFields),
                            fb \in SeqsUpTo(FieldPoolB, 1)}

\* Named schemas.  Flat: scalars, enums and bytes only.  Tree holds a Tree.
\* Value holds a ListValue whose repeated field holds Values (as
\* google.protobuf.Value does).  Struct holds a map to Struct.
NamedSchemas ==
    { [Flat |-> <<Scalar("s", "string"), Scalar("n", "int32"), Scalar("b", "bool"),
                  Scalar("raw", "bytes"),
                  Field("e", "single", "enum", "", EnumE),
                  Field("p", "map", "enum", "", EnumP),
                  Field("none", "list", "enum", "", <<>>)>>],
      [Tree |-> <<Scalar("label", "string"), MessageField("child", "single", "Tree")>>],
      [Value |-> <<Scalar("text", "string"), MessageField("list", "single", "ListValue")>>,
       ListValue |-> <<MessageField("values", "list", "Value")>>],
      [Struct |-> <<MessageField("fields", "map", "Struct")>>] }

TemplateSchemas == GeneratedSchemas \cup NamedSchemas

\* getSingleExampleValue for a field that is not of message kind.
ScalarExample(fd) ==
    CASE fd.kind = "string" -> "example_string"
      [] fd.kind \in {"int32", "int64", "uint32", "uint64"} -> 0
      [] fd.kind = "bool" -> FALSE
      [] fd.kind = "enum" -> (IF Len(fd.values) > 0 THEN fd.values[1].name ELSE "UNKNOWN")
      [] OTHER -> "nil"

\* getExampleValue: the example of a list, of a map, or of a single field,
\* given the example of one value.
getExampleValue(fd, single) ==
    CASE fd.card = "list" -> <<single>>
      [] fd.card = "map" -> [key |-> single]
      [] OTHER -> single

\* A call of GenerateJSONTemplate(md): the loop index i and the template
\* built so far.
Frame(md) == [md |-> md, i |-> 1, template |-> EmptyObj]

TemplateInit ==
    /\ NotTemplateIdle
    /\ tpSchema \in TemplateSchemas
    /\ tpRoot \in DOMAIN tpSchema
    /\ tpStack = <<Frame(tpRoot)>>
    /\ tpOut = EmptyObj
    /\ tpPc = "running"

\* The loop body for a field that is not of message kind.
TemplateScalarField ==
    /\ tpPc = "running"
    /\ LET top == tpStack[Len(tpStack)]
           fields == tpSchema[top.md]
       IN  /\ top.i <= Len(fields)
           /\ fields[top.i].kind # "message"
           /\ tpStack' = [tpStack EXCEPT ![Len(tpStack)] =
                  [top EXCEPT !.i = top.i + 1,
                              !.template = With(top.template, fields[top.i].name,
                                  getExampleValue(fields[top.i], ScalarExample(fields[top.i])))]]
    /\ UNCHANGED <<tpSchema, tpRoot, tpOut, tpPc, notTemplateVars>>

\* The loop body for a field of message kind: getSingleExampleValue calls
\* GenerateJSONTemplate(fd.Message()).
TemplateCall ==
    /\ tpPc = "running"
    /\ LET top == tpStack[Len(tpStack)]
           fields == tpSchema[top.md]
       IN  /\ top.i <= Len(fields)
           /\ fields[top.i].kind = "message"
           /\ IF Len(tpStack) < MaxCallDepth
              THEN /\ tpStack' = Append(tpStack, Frame(fields[top.i].message))
                   /\ tpPc' = tpPc
              ELSE /\ tpPc' = "overflow"
                   /\ tpStack' = tpStack
    /\ UNCHANGED <<tpSchema, tpRoot, tpOut, notTemplateVars>>

\* The loop of the innermost call is over: it returns its template, to the
\* loop body of its caller or as the result.
TemplateReturn ==
    /\ tpPc = "running"
    /\ LET top == tpStack[Len(tpStack)]
       IN  /\ top.i > Len(tpSchema[top.md])
           /\ IF Len(tpStack) = 1
              THEN /\ tpOut' = top.template
                   /\ tpPc' = "returned"
                   /\ tpStack' = <<>>
              ELSE LET caller == tpStack[Len(tpStack) - 1]
                       fd == tpSchema[caller.md][caller.i]
                   IN  /\ tpStack' = [SubSeq(tpStack, 1, Len(tpStack) - 1)
                              EXCEPT ![Len(tpStack) - 1] =
                                  [caller EXCEPT !.i = caller.i + 1,
                                                 !.template = With(caller.template, fd.name,
                                                     getExampleValue(fd, top.template))]]
                       /\ tpOut' = tpOut
                       /\ tpPc' = tpPc
    /\ UNCHANGED <<tpSchema, tpRoot, notTemplateVars>>

TemplateNext ==
    \/ TemplateScalarField
    \/ TemplateCall
    \/ TemplateReturn

SpecTemplate == TemplateInit /\ [][TemplateNext]_vars /\ WF_vars(TemplateNext)

-----------------------------------------------------------------------------
(* Properties of the template generator *)

(* C18: template generation terminates for every message descriptor,
   including descriptors whose message-typed fields refer directly or
   transitively back to the message itself: every call of
   GenerateJSONTemplate eventually returns its template. *)
C18_TemplateTerminates == <>(tpPc = "returned")

\* The name the enum field fd is to show: of the value numbered 0, else of
\* the first value, else UNKNOWN.
NamedZeroFirst(fd) ==
    LET zeros == {i \in 1..Len(fd.values) : fd.values[i].number = 0}
    IN  IF zeros # {} THEN fd.values[CHOOSE i \in zeros : \A j \in zeros : i <= j].name
        ELSE IF Len(fd.values) > 0 THEN fd.values[1].name
        ELSE "UNKNOWN"

(* C23: the template example for an enum field is the declared name of the
   enum value with number 0 if such a value exists, otherwise the name of
   the first-declared value, otherwise "UNKNOWN" when the enum has no
   values. *)
C23_EnumExampleIsZeroValue ==
    tpPc = "returned" =>
        \A i \in 1..Len(tpSchema[tpRoot]) :
            LET fd == tpSchema[tpRoot][i]
            IN  fd.kind = "enum" => tpOut[fd.name] = getExampleValue(fd, NamedZeroFirst(fd))

-----------------------------------------------------------------------------
(* Config.ResolveAlias on its own: every configuration of a small name
   space.  A nil alias table reads like an empty one (a lookup in a nil Go
   map finds nothing), so both are the table with the empty domain. *)

AliasNames == {"User", "Post", ""}
AliasTargets == {"example.v1.User", "Post", "User"}

AliasTables == UNION {[d -> AliasTargets] : d \in SUBSET AliasNames}

AliasConfigs ==
    {NilConfig} \cup {[nil |-> FALSE, aliases |-> t, mappings |-> <<>>] : t \in AliasTables}

AliasInit ==
    /\ NotAliasIdle
    /\ alCfg \in AliasConfigs
    /\ alName \in AliasNames \cup AliasTargets
    /\ alOut = ""
    /\ alPc = "start"

AliasResolve ==
    /\ alPc = "start"
    /\ alOut' = ResolveAlias(alCfg, alName)
    /\ alPc' = "done"
    /\ UNCHANGED <<alCfg, alName, notAliasVars>>

AliasNext == AliasResolve

SpecAlias == AliasInit /\ [][AliasNext]_vars

-----------------------------------------------------------------------------
(* Properties of ResolveAlias *)

\* the alias table the call sees: none under a nil configuration
TableSeen == IF alCfg.nil THEN EmptyObj ELSE alCfg.aliases

(* C19: ResolveAlias returns the mapped fully-qualified name for a name
   present in the alias table, and the name unchanged for every name absent
   from it, including when the configuration or its alias table is nil. *)
C19_AliasOrPassthrough ==
    alPc = "done" =>
        /\ \A n \in DOMAIN TableSeen : alName = n => alOut = TableSeen[n]
        /\ alName \notin DOMAIN TableSeen => alOut = alName

C19_Witness ==
    /\ alPc = "done"
    /\ ~alCfg.nil
    /\ alName = "User"
    /\ "Post" \in DOMAIN alCfg.aliases
    /\ alCfg.aliases = ("User" :> "example.v1.User") @@ ("Post" :> "User")
    /\ alOut = "example.v1.User"

-----------------------------------------------------------------------------
(* The cancellation context in Engine.Template, Engine.Decode and
   Engine.Generate: the schema loads and the recursions of the processor an
   operation goes through, in the order of the code, and what each of them
   does with ctx.  The schemas are present and the data well formed, so the
   only error is the one of a cancelled context. *)

\* deepest nesting of mapped or message-typed fields in the data
MaxNesting == 2

WrapperPath ==
    GoString(<<"u", "n", "t", "y", "p", "e", "d", "_", "v", "e", "r", "s", "i", "o", "n",
               "e", "d", "_", "m", "e", "s", "s", "a", "g", "e", ".", "p", "r", "o", "t", "o">>)

ProtoSuffix == GoString(<<".", "p", "r", "o", "t", "o">>)

CancelPaths ==
    { GoString(<<"s", ".", "p", "r", "o", "t", "o">>),
      GoString(<<"s", ".", "b", "i", "n", "p", "b">>),
      GoString(<<"s", ".", "j", "s", "o", "n">>) }

\* A boundary of an operation: a call of LoadSchema, whose error the caller
\* returns behind the prefix wrap, or a call of ExpandRecursively,
\* expandMap or CompressRecursively.
Load(path, wrap) == [kind |-> "load", path |-> path, wrap |-> wrap]
Recurse == [kind |-> "recurse", path |-> <<>>, wrap |-> ""]

\* A nested field the processor descends into: a message-typed field, or a
\* mapped bytes field whose mapping is versioned or not.
NestKinds == {"message", "bytes", "versioned"}

\* expandMap on nested data: expandBytes loads the wrapper schema of a
\* versioned mapping and then recurses; a message-typed field recurses.
RECURSIVE ExpandBoundaries(_, _)
ExpandBoundaries(nest, wrap) ==
    IF nest = <<>> THEN <<>>
    ELSE (IF Head(nest) = "versioned" THEN <<Load(WrapperPath, wrap)>> ELSE <<>>)
         \o <<Recurse>> \o ExpandBoundaries(Tail(nest), wrap)

\* CompressRecursively on nested data: compressBytes recurses first and
\* loads the wrapper schema of a versioned mapping afterwards.
RECURSIVE CompressBoundaries(_, _)
CompressBoundaries(nest, wrap) ==
    IF nest = <<>> THEN <<>>
    ELSE <<Recurse>> \o CompressBoundaries(Tail(nest), wrap)
         \o (IF Head(nest) = "versioned" THEN <<Load(WrapperPath, wrap)>> ELSE <<>>)

\* The boundaries of a whole operation.
Boundaries(op, path, versioned, hasConfig, nest) ==
    CASE op = "Template" -> <<Load(path, "")>>
      [] op = "Decode" ->
            (IF versioned THEN <<Load(WrapperPath, "failed to load wrapper schema: ")>> ELSE <<>>)
            \o <<Load(path, "")>>
            \o (IF hasConfig THEN <<Recurse>> \o ExpandBoundaries(nest, "") ELSE <<>>)
      [] OTHER ->
            <<Load(path, "")>>
            \o (IF hasConfig
                THEN <<Recurse>> \o CompressBoundaries(nest, "failed to compress message: ")
                ELSE <<>>)
            \o (IF versioned THEN <<Load(WrapperPath, "failed to load wrapper schema: ")>> ELSE <<>>)

\* ctx.Err() of a cancelled context, behind the prefix of the caller.
Cancellation(wrap) ==
    CASE wrap = "" -> "context canceled"
      [] wrap = "failed to load wrapper schema: " ->
            "failed to load wrapper schema: context canceled"
      [] OTHER -> "failed to compress message: context canceled"

\* LoadSchema never looks at ctx itself.  A path ending in .proto goes to
\* protocompile's Compile, which is given ctx; every other path goes to
\* loadFromImage, which is not given ctx.
ConsultsContext(path) == HasSuffix(path, ProtoSuffix)

CancelInit ==
    /\ NotCancelIdle
    /\ cnOp \in {"Template", "Decode", "Generate"}
    /\ cnPath \in CancelPaths
    /\ cnVersioned \in BOOLEAN
    /\ cnConfig \in BOOLEAN
    /\ cnNest \in SeqsUpTo(NestKinds, MaxNesting)
    /\ cnOp = "Template" => (~cnVersioned /\ cnNest = <<>>)
    /\ ~cnConfig => cnNest = <<>>
    /\ cnTodo = Boundaries(cnOp, cnPath, cnVersioned, cnConfig, cnNest)
    /\ cnCancelled \in BOOLEAN
    /\ cnCrossed = FALSE
    /\ cnOut = Unset
    /\ cnPc = "running"

\* The caller cancels the context while the operation runs.
CancelContext ==
    /\ cnPc = "running"
    /\ ~cnCancelled
    /\ cnCancelled' = TRUE
    /\ UNCHANGED <<cnOp, cnPath, cnVersioned, cnConfig, cnNest, cnTodo, cnCrossed, cnOut,
                   cnPc, notCancelVars>>

\* LoadSchema(ctx, path).  Under a cancelled context Compile returns the
\* context's error or, when the compilation has already finished, its
\* files: both results are ready in the select of Compile.
CancelLoad ==
    /\ cnPc = "running"
    /\ cnTodo # <<>>
    /\ Head(cnTodo).kind = "load"
    /\ \E noticed \in {cnCancelled /\ ConsultsContext(Head(cnTodo).path), FALSE} :
          IF noticed
          THEN /\ cnOut' = Fail(Cancellation(Head(cnTodo).wrap))
               /\ cnPc' = "done"
               /\ cnTodo' = <<>>
               /\ cnCrossed' = cnCrossed
          ELSE /\ cnTodo' = Tail(cnTodo)
               /\ cnCrossed' = (cnCrossed \/ cnCancelled)
               /\ UNCHANGED <<cnOut, cnPc>>
    /\ UNCHANGED <<cnOp, cnPath, cnVersioned, cnConfig, cnNest, cnCancelled, notCancelVars>>

\* A call of ExpandRecursively, expandMap or CompressRecursively: ctx is
\* passed along and not looked at.
CancelRecurse ==
    /\ cnPc = "running"
    /\ cnTodo # <<>>
    /\ Head(cnTodo).kind = "recurse"
    /\ cnTodo' = Tail(cnTodo)
    /\ cnCrossed' = (cnCrossed \/ cnCancelled)
    /\ UNCHANGED <<cnOp, cnPath, cnVersioned, cnConfig, cnNest, cnCancelled, cnOut, cnPc,
                   notCancelVars>>

\* The operation returns its result.
CancelReturn ==
    /\ cnPc = "running"
    /\ cnTodo = <<>>
    /\ cnOut' = Ok(<<1>>)
    /\ cnPc' = "done"
    /\ UNCHANGED <<cnOp, cnPath, cnVersioned, cnConfig, cnNest, cnTodo, cnCancelled,
                   cnCrossed, notCancelVars>>

CancelNext ==
    \/ CancelContext
    \/ CancelLoad
    \/ CancelRecurse
    \/ CancelReturn

SpecCancel == CancelInit /\ [][CancelNext]_vars

-----------------------------------------------------------------------------
(* Properties of cancellation *)

CancellationErrors ==
    {Cancellation(""), Cancellation("failed to load wrapper schema: "),
     Cancellation("failed to compress message: ")}

(* C20: each top-level engine operation (Template, Decode, Generate) checks
   its cancellation context before each schema load and before each
   recursion into expand/compress: an operation whose context was
   cancelled when it reached such a boundary returns a cancellation error
   and no result. *)
C20_CancelledAtBoundaryFails ==
    (cnPc = "done" /\ cnCrossed) => (~cnOut.ok /\ cnOut.err \in CancellationErrors)

-----------------------------------------------------------------------------
(* patch.Set: dotted-path assignment into a JSON object.  The keys of the
   objects are Go strings; the values given to Set are the scalars
   ParseValue yields.  The objects are trees (what json.Unmarshal and Set
   itself build), so the update in place is the update of the tree. *)

\* most Set calls of a run
MaxSets == 3

\* curr[part].(map[string]interface{})
IsObjectAt(o, part) == part \in DOMAIN o /\ o[part].k = "obj"

\* Set with a loop that makes a new map for every intermediate segment.
RECURSIVE SetPartsFresh(_, _, _)
SetPartsFresh(curr, parts, value) ==
    IF Len(parts) = 1 THEN With(curr, parts[1], value)
    ELSE With(curr, parts[1], Obj(SetPartsFresh(EmptyObj, Tail(parts), value)))

\* The loop of Set from the segment parts[1] on, and the final assignment.
RECURSIVE SetParts(_, _, _)
SetParts(curr, parts, value) ==
    IF Len(parts) = 1 THEN With(curr, parts[1], value)
    ELSE LET next == IF IsObjectAt(curr, parts[1]) THEN curr[parts[1]].o ELSE EmptyObj
         IN  With(curr, parts[1], Obj(SetParts(next, Tail(parts), value)))

SetFresh(data, path, value) == SetPartsFresh(data, Split(path), value)

\* patch.Set
Set(data, path, value) == SetParts(data, Split(path), value)

PatchPaths ==
    { GoString(<<"a">>), GoString(<<"b">>), GoString(<<"a", ".", "b">>),
      GoString(<<"a", ".", "c">>), GoString(<<"a", ".", "b", ".", "c">>),
      GoString(<<"a", ".">>), GoString(<<>>) }

PatchValues == {Num(1), Num(2)}

Key(chars) == GoString(chars)

\* Objects json.Unmarshal may have produced: {}, {"a": 1}, {"a": {"b": 1}},
\* {"a": {"b": 1, "c": {"c": 2}}, "b": 2}.
PatchObjects ==
    { EmptyObj,
      (Key(<<"a">>) :> Num(1)),
      (Key(<<"a">>) :> Obj((Key(<<"b">>) :> Num(1)))),
      (Key(<<"a">>) :> Obj((Key(<<"b">>) :> Num(1))
                           @@ (Key(<<"c">>) :> Obj((Key(<<"c">>) :> Num(2))))))
          @@ (Key(<<"b">>) :> Num(2)) }

PatchInit ==
    /\ NotPatchIdle
    /\ ptData \in PatchObjects
    /\ ptPrev = ptData
    /\ ptLog = <<>>

PatchSet ==
    /\ Len(ptLog) < MaxSets
    /\ \E path \in PatchPaths, value \in PatchValues :
          /\ ptData' = Set(ptData, path, value)
          /\ ptLog' = Append(ptLog, [path |-> path, value |-> value])
    /\ ptPrev' = ptData
    /\ UNCHANGED notPatchVars

PatchNext == PatchSet

SpecPatch == PatchInit /\ [][PatchNext]_vars

-----------------------------------------------------------------------------
(* Properties of patch.Set *)

NoValue == [k |-> "none"]

\* The value at the segments parts of the object o, if any.
RECURSIVE Lookup(_, _)
Lookup(o, parts) ==
    IF parts[1] \notin DOMAIN o THEN NoValue
    ELSE IF Len(parts) = 1 THEN o[parts[1]]
    ELSE IF o[parts[1]].k = "obj" THEN Lookup(o[parts[1]].o, Tail(parts))
    ELSE NoValue

\* The object at the segments parts of o; the empty object when there is
\* none.
ObjectAt(o, parts) ==
    IF parts = <<>> THEN o
    ELSE LET v == Lookup(o, parts) IN IF v.k = "obj" THEN v.o ELSE EmptyObj

IsPrefix(p, q) == Len(p) <= Len(q) /\ SubSeq(q, 1, Len(p)) = p

LastSet == ptLog[Len(ptLog)]

\* The last Set call left every key beside its path as it was, at every
\* level of the path.
SiblingsKept ==
    LET parts == Split(LastSet.path)
    IN  \A i \in 1..Len(parts) :
            LET before == ObjectAt(ptPrev, SubSeq(parts, 1, i - 1))
                after == ObjectAt(ptData, SubSeq(parts, 1, i - 1))
            IN  /\ DOMAIN after = DOMAIN before \cup {parts[i]}
                /\ \A key \in DOMAIN before \ {parts[i]} : after[key] = before[key]

\* the index of the last Set call on the path of call i
IsLastOnPath(i) == \A j \in (i + 1)..Len(ptLog) : ptLog[j].path # ptLog[i].path

\* no call after call i is on a shorter or a longer path through the same
\* segments
Undisturbed(i) ==
    \A j \in (i + 1)..Len(ptLog) :
        LET p == Split(ptLog[i].path)
            q == Split(ptLog[j].path)
        IN  p = q \/ (~IsPrefix(p, q) /\ ~IsPrefix(q, p))

(* C21 as stated: after any sequence of Set calls the value at a path is
   the one given by the last Set on that path. *)
C21_LastSetWins ==
    \A i \in 1..Len(ptLog) :
        IsLastOnPath(i) => Lookup(ptData, Split(ptLog[i].path)) = ptLog[i].value

(* C21: Set(data, path, v) makes the value at the dotted path equal to v,
   with an object at every segment before the last, and leaves every key
   that is not on the path unchanged at each level; after any sequence of
   Set calls the value at a path is the one given by the last Set on that
   path, provided no later Set went to a path that is a proper prefix or a
   proper extension of it. *)
C21_SetThenFrame ==
    ptLog # <<>> =>
        /\ Lookup(ptData, Split(LastSet.path)) = LastSet.value
        /\ SiblingsKept
        /\ \A i \in 1..Len(ptLog) :
               (IsLastOnPath(i) /\ Undisturbed(i))
                   => Lookup(ptData, Split(ptLog[i].path)) = ptLog[i].value

C21_Witness ==
    /\ Len(ptLog) = 2
    /\ ptLog[1].path = GoString(<<"a", ".", "b", ".", "c">>)
    /\ ptLog[2].path = GoString(<<"a", ".", "c">>)
    /\ ptLog[1].value # ptLog[2].value
    /\ Key(<<"b">>) \in DOMAIN ptData
    /\ Lookup(ptData, Split(ptLog[1].path)) = ptLog[1].value
    /\ Lookup(ptData, Split(ptLog[2].path)) = ptLog[2].value

-----------------------------------------------------------------------------
(* Configurations that declare several mappings for one field: Generate and
   Decode of a Signed message under every declaration order. *)

\* most mappings of a configuration
MaxTies == 2

TieMappings ==
    { Mapping("Signed", "transaction", "Topo", TRUE, 30),
      Mapping("Signed", "transaction", "Topo", FALSE, 0),
      Mapping("Signed", "transaction", "Map", FALSE, 0),
      Mapping("Topo", "serial", "Topo", FALSE, 0) }

TieJsons == {j \in JsonSigned : ~HasRaw(j)}

TieInit ==
    /\ NotTieIdle
    /\ tiMappings \in SeqsUpTo(TieMappings, MaxTies)
    /\ tiJson \in TieJsons
    /\ tiBin = Unset
    /\ tiOut = Unset
    /\ tiPc = "init"

\* Engine.Generate, whose CompressRecursively looks the mappings up.
TieGenerate ==
    /\ tiPc = "init"
    /\ tiBin' = Generate(Config(tiMappings), "Signed", tiJson, NoVersion)
    /\ tiPc' = "generated"
    /\ UNCHANGED <<tiMappings, tiJson, tiOut, notTieVars>>

\* Engine.Decode of the bytes Generate returned, whose expandMap looks the
\* mappings up.
TieDecode ==
    /\ tiPc = "generated"
    /\ tiBin.ok
    /\ tiOut' = Decode(Config(tiMappings), "Signed", tiBin.v, FALSE)
    /\ tiPc' = "decoded"
    /\ UNCHANGED <<tiMappings, tiJson, tiBin, notTieVars>>

TieNext == TieGenerate \/ TieDecode

SpecTie == TieInit /\ [][TieNext]_vars

-----------------------------------------------------------------------------
(* Properties of mapping ties *)

SameField(m1, m2) == m1.type = m2.type /\ m1.field = m2.field

\* The mappings ms without those declared after a mapping of the same
\* (type, field).
RECURSIVE FirstDeclared(_)
FirstDeclared(ms) ==
    IF ms = <<>> THEN <<>>
    ELSE LET front == SubSeq(ms, 1, Len(ms) - 1)
             last == ms[Len(ms)]
         IN  IF \E j \in 1..Len(front) : SameField(front[j], last)
             THEN FirstDeclared(front)
             ELSE Append(FirstDeclared(front), last)

HasTie == FirstDeclared(tiMappings) # tiMappings

(* C22: exactly one mapping applies per field: when the configuration
   declares several mappings with the same (source_type, field_name), both
   expand and compress use the first-declared one and ignore the rest, so
   Generate and Decode return what they return without the later ones. *)
C22_FirstDeclaredApplies ==
    /\ tiPc \in {"generated", "decoded"} =>
           tiBin = Generate(Config(FirstDeclared(tiMappings)), "Signed", tiJson, NoVersion)
    /\ tiPc = "decoded" =>
           tiOut = Decode(Config(FirstDeclared(tiMappings)), "Signed", tiBin.v, FALSE)

C22_Witness ==
    /\ tiPc = "decoded"
    /\ HasTie
    /\ tiMappings[1].target # tiMappings[2].target
    /\ tiBin # Generate(Config(<<tiMappings[2]>>), "Signed", tiJson, NoVersion)
    /\ tiOut.ok
    /\ tiOut # Decode(Config(<<tiMappings[2]>>), "Signed", tiBin.v, FALSE)

-----------------------------------------------------------------------------
(* The node encoders on transactions with create, exercise, fetch and
   rollback nodes whose children references form no cycle (a child has a
   later id than its parent), with root and child ids of no node, and with
   seeds that match a node id or not. *)

Id(chars) == GoString(chars)

NodeBody(type, create, exercise, fetch, rollback) ==
    [nil |-> FALSE, type |-> type, create |-> create, exercise |-> exercise,
     fetch |-> fetch, rollback |-> rollback]

NodeExercise(children) ==
    [nil |-> FALSE, lfVersion |-> GoString(<<"2">>), contractId |-> GoString(<<"a", "b">>),
     packageName |-> GoString(<<"p">>), templateId |-> NilPointer,
     signatories |-> <<GoString(<<"a">>)>>, stakeholders |-> <<>>,
     actingParties |-> <<GoString(<<"a">>)>>, interfaceId |-> NilPointer,
     choiceId |-> GoString(<<"c">>),
     chosenValue |-> [kind |-> "unit", b |-> FALSE, n |-> 0, s |-> <<>>],
     consuming |-> TRUE,
     exerciseResult |-> [kind |-> "nil", b |-> FALSE, n |-> 0, s |-> <<>>],
     choiceObservers |-> <<>>, children |-> children]

NodeFetch ==
    [nil |-> FALSE, lfVersion |-> GoString(<<"2", ".", "1">>),
     contractId |-> GoString(<<"c", "d">>), packageName |-> GoString(<<"p">>),
     templateId |-> NilPointer, signatories |-> <<GoString(<<"a">>)>>,
     stakeholders |-> <<>>, interfaceId |-> NilPointer, actingParties |-> <<>>]

CreateBody == NodeBody("create", LeafCreate(GoString(<<"a", "b">>)), NilPointer,
                       NilPointer, NilPointer)
ExerciseBody(children) ==
    NodeBody("exercise", NilPointer, NodeExercise(children), NilPointer, NilPointer)
FetchBody == NodeBody("fetch", NilPointer, NilPointer, NodeFetch, NilPointer)
RollbackBody(children) ==
    NodeBody("rollback", NilPointer, NilPointer, NilPointer, Rollback(children))
NoBody == NodeBody("none", NilPointer, NilPointer, NilPointer, NilPointer)

\* Id 9 is the id of no node.
NodeLists ==
    {<<Node(Id(<<"0">>), "v1", b0)>> \o n1 \o n01 \o n2 :
        b0 \in {ExerciseBody(<<Id(<<"1">>), Id(<<"9">>)>>), ExerciseBody(<<>>),
                RollbackBody(<<Id(<<"9">>), Id(<<"1">>), Id(<<"1">>)>>), CreateBody, NoBody},
        n1 \in {<<>>} \cup {<<Node(Id(<<"1">>), "v1", b1)>> :
                    b1 \in {CreateBody, RollbackBody(<<Id(<<"9">>)>>),
                            ExerciseBody(<<Id(<<"0", "1">>)>>)}},
        n01 \in {<<>>, <<Node(Id(<<"0", "1">>), "v1", CreateBody)>>},
        n2 \in {<<>>, <<Node(Id(<<"2">>), "v1", FetchBody)>>}}

NodeRoots ==
    {<<>>, <<Id(<<"9">>), Id(<<"0">>), Id(<<"1">>)>>, <<Id(<<"0">>), Id(<<"2">>)>>,
     <<Id(<<"0", "1">>)>>}

Seed(nodeId, seed) == [nodeId |-> nodeId, seed |-> seed]

NodeSeeds ==
    {<<>>, <<Seed(0, <<7>>)>>, <<Seed(1, <<8, 8>>)>>,
     <<Seed(0, <<7>>), Seed(1, <<8, 8>>), Seed(0, <<9, 9, 9>>)>>}

NodeContracts ==
    {[createdAt |-> 3, contract |-> "none", v1 |-> NilPointer],
     [createdAt |-> 3, contract |-> "v1", v1 |-> LeafCreate(GoString(<<"a", "b">>))]}

Transaction(roots, nodes, nodeSeeds) ==
    [nil |-> FALSE, version |-> GoString(<<"2">>), roots |-> roots, nodes |-> nodes,
     nodeSeeds |-> nodeSeeds]

NodeInit ==
    /\ NotNodeIdle
    /\ \E roots \in NodeRoots, nodes \in NodeLists, nodeSeeds \in NodeSeeds :
          ndTx = Transaction(roots, nodes, nodeSeeds)
    /\ ndContract \in NodeContracts
    /\ ndBefore = [nil |-> TRUE]
    /\ ndRound = 1
    /\ ndMaps = NoMaps
    /\ ndEncoded = EmptyObj
    /\ ndTxEncoded = <<>>
    /\ ndInput = <<>>
    /\ ndPc = "start"

\* buildNodesAndSeedsMap
NodeBuildMaps ==
    /\ ndPc = "start"
    /\ ndMaps' = buildNodesAndSeedsMap(ndTx)
    /\ ndPc' = "maps"
    /\ UNCHANGED <<ndTx, ndContract, ndBefore, ndRound, ndEncoded, ndTxEncoded, ndInput,
                   notNodeVars>>

\* encodeTransaction, the encodeNode of every node it may reach, and the
\* encodeInputContract of encodeMetadata.
NodeEncode ==
    /\ ndPc = "maps"
    /\ ndEncoded' = [id \in DOMAIN ndMaps.nodes |->
                        encodeNode(ndMaps.nodes[id], ndMaps.nodes, ndMaps.seeds)]
    /\ ndTxEncoded' = encodeTransaction(ndTx, ndMaps.nodes, ndMaps.seeds)
    /\ ndInput' = encodeInputContract(ndContract, ndMaps.nodes, ndMaps.seeds)
    /\ ndPc' = "done"
    /\ UNCHANGED <<ndTx, ndContract, ndBefore, ndRound, ndMaps, notNodeVars>>

\* The same metadata goes with a transaction of other nodes and seeds.
NodeExchange ==
    /\ ndPc = "done"
    /\ ndRound = 1
    /\ \E nodes \in {<<>>, ndTx.nodes}, nodeSeeds \in NodeSeeds :
          /\ Transaction(ndTx.roots, nodes, nodeSeeds) # ndTx
          /\ ndTx' = Transaction(ndTx.roots, nodes, nodeSeeds)
    /\ ndBefore' = [nil |-> FALSE, tx |-> ndTx, input |-> ndInput]
    /\ ndRound' = 2
    /\ ndPc' = "start"
    /\ UNCHANGED <<ndContract, ndMaps, ndEncoded, ndTxEncoded, ndInput, notNodeVars>>

NodeNext == NodeBuildMaps \/ NodeEncode \/ NodeExchange

SpecNode == NodeInit /\ [][NodeNext]_vars

-----------------------------------------------------------------------------
(* Properties of the node encodings *)

NodesDone == ndPc = "done"

\* the ids of the transaction's nodes, and the node an id stands for
NodeIdsOf(tx) == {tx.nodes[i].nodeId : i \in 1..Len(tx.nodes)}
NodeOf(id) == ndMaps.nodes[id]
BodyOf(id) == NodeOf(id).v1

\* What a list of root or child ids is to contribute: the count of the ids,
\* then for each id the digest of its node's encoding, or 32 zero bytes
\* when the transaction has no node of this id.
CountedDigests(ids) ==
    encodeInt32(Len(ids))
        \o Flatten([i \in 1..Len(ids) |->
                        IF ids[i] \in NodeIdsOf(ndTx) THEN Sha256(ndEncoded[ids[i]])
                        ELSE Zero32])

ChildrenOf(id) ==
    CASE BodyOf(id).type = "exercise" -> BodyOf(id).exercise.children
      [] BodyOf(id).type = "rollback" -> BodyOf(id).rollback.children
      [] OTHER -> <<>>

HasMissing(ids) == \E i \in 1..Len(ids) : ids[i] \notin NodeIdsOf(ndTx)

(* C24: when a root id, or a child id of an Exercise or Rollback node, has
   no matching node in the transaction's nodes, the hasher substitutes 32
   zero bytes for that node's hash (it neither fails nor skips the entry),
   and the repeated-count prefix still counts the entry. *)
C24_MissingIdIsZero32 ==
    NodesDone =>
        /\ ndTxEncoded = encodeString(ndTx.version) \o CountedDigests(ndTx.roots)
        /\ \A id \in DOMAIN ndEncoded :
               BodyOf(id).type \in {"exercise", "rollback"}
                   => HasSuffix(ndEncoded[id], CountedDigests(ChildrenOf(id)))

C24_Witness ==
    /\ NodesDone
    /\ HasMissing(ndTx.roots)
    /\ \E id \in DOMAIN ndEncoded :
          BodyOf(id).type = "exercise" /\ HasMissing(ChildrenOf(id))
    /\ \E id \in DOMAIN ndEncoded :
          BodyOf(id).type = "rollback" /\ HasMissing(ChildrenOf(id))
    /\ \E i \in 1..Len(ndTx.roots) : ndTx.roots[i] \in NodeIdsOf(ndTx)

\* The seeds of the transaction whose node_id, in decimal, is the string id.
SeedsFor(id) == {i \in 1..Len(ndTx.nodeSeeds) : Itoa(ndTx.nodeSeeds[i].nodeId) = id}

\* The index of the tag byte of a create, exercise or fetch encoding.
TagIndex(lfVersion) == Len(NodeEncodingVersion) + 4 + Len(lfVersion) + 1

\* The bytes of enc from index from on.
From(enc, from) == SubSeq(enc, from, Len(enc))

CreateIds == {id \in DOMAIN ndEncoded : BodyOf(id).type = "create"}

(* C25: a Create node's encoding carries the optional-seed marker 0x01
   followed by the raw seed if and only if node_seeds contains an entry
   whose int32 node_id, rendered as a decimal string, equals the node's
   node_id string; otherwise it carries the single byte 0x00.  The contract
   id follows in both cases. *)
C25_SeedMarkerIffSeed ==
    NodesDone =>
        \A id \in CreateIds :
            LET create == BodyOf(id).create
                at == TagIndex(create.lfVersion) + 1
                enc == ndEncoded[id]
            IN  IF SeedsFor(id) # {}
                THEN /\ enc[at] = 1
                     /\ \E i \in SeedsFor(id) :
                           HasPrefix(From(enc, at + 1),
                                     ndTx.nodeSeeds[i].seed
                                         \o encodeHexString(create.contractId))
                ELSE /\ enc[at] = 0
                     /\ HasPrefix(From(enc, at + 1), encodeHexString(create.contractId))

C25_Witness ==
    /\ NodesDone
    /\ Id(<<"0">>) \in CreateIds /\ SeedsFor(Id(<<"0">>)) # {}
    /\ Id(<<"0", "1">>) \in CreateIds /\ SeedsFor(Id(<<"0", "1">>)) = {}
    /\ Id(<<"1">>) \in CreateIds /\ SeedsFor(Id(<<"1">>)) # {}
    /\ ndEncoded[Id(<<"0">>)] # ndEncoded[Id(<<"0", "1">>)]

\* The opening of the Create encoding of the input contract: version,
\* lf_version, tag 0x00 and seed marker 0x00.
UnseededOpening(create) ==
    NodeEncodingVersion \o encodeString(create.lfVersion) \o <<0>> \o <<0>>

(* C26: the encoding of a metadata input contract (created_at followed by
   SHA256 of its Create encoding) always uses the seed marker 0x00 and is
   unchanged by any change to the transaction's node_seeds or nodes. *)
C26_InputContractAlone ==
    NodesDone =>
        /\ HasPrefix(ndInput, encodeInt64(ndContract.createdAt))
        /\ ndContract.contract = "v1" =>
               HasPrefix(ndInput, encodeInt64(ndContract.createdAt)
                                      \o Sha256(UnseededOpening(ndContract.v1)))
        /\ ndRound = 2 => ndInput = ndBefore.input

C26_Witness ==
    /\ NodesDone
    /\ ndRound = 2
    /\ ndContract.contract = "v1"
    /\ ndBefore.tx.nodeSeeds # ndTx.nodeSeeds
    /\ ndBefore.tx.nodes # ndTx.nodes
    /\ ndTx.nodeSeeds # <<>>
    /\ ndBefore.tx.nodeSeeds = <<>>

\* The opening of a create, exercise or fetch encoding.
Opening(lfVersion, tag) == NodeEncodingVersion \o encodeString(lfVersion) \o <<tag>>

TypesEncoded == {BodyOf(id).type : id \in DOMAIN ndEncoded}

(* C27: Create, Exercise and Fetch node encodings open with NODE_ENCODING,
   then encode_string(lf_version), then the variant tag byte (0x00, 0x01,
   0x02); the Rollback encoding opens with NODE_ENCODING immediately
   followed by tag 0x03 and the repeated children hashes, with no
   lf_version in between. *)
C27_NodeOpenings ==
    NodesDone =>
        \A id \in DOMAIN ndEncoded :
            LET body == BodyOf(id)
                enc == ndEncoded[id]
            IN  /\ body.type = "create" => HasPrefix(enc, Opening(body.create.lfVersion, 0))
                /\ body.type = "exercise"
                       => HasPrefix(enc, Opening(body.exercise.lfVersion, 1))
                /\ body.type = "fetch" => HasPrefix(enc, Opening(body.fetch.lfVersion, 2))
                /\ body.type = "rollback"
                       => enc = NodeEncodingVersion \o <<3>>
                                    \o CountedDigests(body.rollback.children)

C27_Witness ==
    /\ NodesDone
    /\ TypesEncoded = {"create", "exercise", "fetch", "rollback"}

-----------------------------------------------------------------------------
(* Expansion under mappings that lead back to their own type: the chain of
   re-expansions ExpandRecursively -> expandMap -> expandBytes ->
   ExpandRecursively follows through the payloads.  The types are Signed
   and Map, each with one bytes field. *)

\* deepest nesting of the payloads
MaxPayloadNest == 3

\* the nested calls the goroutine stack holds
MaxExpandDepth == 8

RECURSIVE ExpandPayloads(_)
ExpandPayloads(n) ==
    IF n = 0 THEN {<<>>, <<24, 1>>, <<1>>}
    ELSE LET inner == ExpandPayloads(n - 1)
         IN  inner \cup {PutBytes(1, p) : p \in inner}
                   \cup {MarshalWrapper(p, 30) : p \in inner}

ExpandMappings ==
    { Mapping("Signed", "transaction", "Signed", FALSE, 0),
      Mapping("Signed", "transaction", "Signed", TRUE, 30),
      Mapping("Signed", "transaction", "Map", FALSE, 0),
      Mapping("Map", "namespace", "Signed", FALSE, 0),
      Mapping("Map", "namespace", "Map", TRUE, 30) }

NoNested == [kind |-> "none", data |-> <<>>, binary |-> <<>>, target |-> ""]
NestedError == [kind |-> "error", data |-> <<>>, binary |-> <<>>, target |-> ""]

\* The fields of type whose value expandMap hands to expandBytes.
MappedBytesFields(ms, type, o) ==
    {i \in 1..Len(Desc(type)) :
        /\ Desc(type)[i].name \in DOMAIN o
        /\ HasMapping(FindMapping(ms, type, Desc(type)[i].name))
        /\ Desc(type)[i].kind = "bytes"
        /\ IsString(o[Desc(type)[i].name])}

\* A re-expansion that works on the payload it came from.
NestedPayloadWhole(ms, type, container) ==
    LET j == UnmarshalJSON(type, container)
        fields == IF j.ok THEN MappedBytesFields(ms, type, j.v.o) ELSE {}
        fd == Desc(type)[CHOOSE i \in fields : \A k \in fields : i <= k]
    IN  IF ~j.ok THEN NestedError
        ELSE IF fields = {} THEN NoNested
        ELSE [kind |-> "nested", data |-> container, binary |-> container,
              target |-> FindMapping(ms, type, fd.name).target]

\* What the expansion of the payload container, read as type, re-expands:
\* the value data of its first mapped bytes field, out of its envelope when
\* the mapping is versioned (binary), read as the mapping's target type.
NestedPayload(ms, type, container) ==
    LET j == UnmarshalJSON(type, container)
        fields == IF j.ok THEN MappedBytesFields(ms, type, j.v.o) ELSE {}
        fd == Desc(type)[CHOOSE i \in fields : \A k \in fields : i <= k]
        m == FindMapping(ms, type, fd.name)
        decoded == B64Decode(j.v.o[fd.name])
        w == UnmarshalWrapper(decoded.v)
    IN  IF ~j.ok THEN NestedError
        ELSE IF fields = {} THEN NoNested
        ELSE IF ~decoded.ok THEN NestedError
        ELSE IF m.versioned /\ ~w.ok THEN NestedError
        ELSE IF ~FindMessage(Files, m.target) THEN NestedError
        ELSE [kind |-> "nested", data |-> decoded.v,
              binary |-> IF m.versioned THEN w.data ELSE decoded.v,
              target |-> m.target]

ExpandInit ==
    /\ NotExpandIdle
    /\ exMappings = <<>>
    /\ exType = ""
    /\ exContainer = <<>>
    /\ exTrail = <<>>
    /\ exOut = Unset
    /\ exErr = FALSE
    /\ exPc = "idle"

\* A configuration is loaded and a payload is handed in.
ExpandLoad ==
    /\ exPc = "idle"
    /\ exMappings' \in SeqsUpTo(ExpandMappings, 2)
    /\ exType' \in {"Signed", "Map"}
    /\ exContainer' \in ExpandPayloads(MaxPayloadNest)
    /\ exTrail' = <<Len(exContainer')>>
    /\ exPc' = "start"
    /\ UNCHANGED <<exOut, exErr, notExpandVars>>

\* Engine.Decode of the payload, as a whole.
ExpandDecode ==
    /\ exPc = "start"
    /\ exOut' = Decode(Config(exMappings), exType, exContainer, FALSE)
    /\ exPc' = "walk"
    /\ UNCHANGED <<exMappings, exType, exContainer, exTrail, exErr, notExpandVars>>

\* expandBytes calls ExpandRecursively on the nested payload.
ExpandNested ==
    /\ exPc = "walk"
    /\ \E n \in {NestedPayload(exMappings, exType, exContainer)} :
          /\ n.kind = "nested"
          /\ IF Len(exTrail) < MaxExpandDepth
             THEN /\ exContainer' = n.binary
                  /\ exType' = n.target
                  /\ exTrail' = Append(exTrail, Len(n.data))
                  /\ exPc' = exPc
             ELSE /\ exPc' = "overflow"
                  /\ UNCHANGED <<exContainer, exType, exTrail>>
    /\ UNCHANGED <<exMappings, exOut, exErr, notExpandVars>>

\* The innermost expansion finds no mapped field, or fails; every caller
\* returns in turn.
ExpandReturn ==
    /\ exPc = "walk"
    /\ \E n \in {NestedPayload(exMappings, exType, exContainer)} :
          /\ n.kind # "nested"
          /\ exErr' = (n.kind = "error")
    /\ exPc' = "done"
    /\ UNCHANGED <<exMappings, exType, exContainer, exTrail, exOut, notExpandVars>>

ExpandNext == ExpandLoad \/ ExpandDecode \/ ExpandNested \/ ExpandReturn

SpecExpand == ExpandInit /\ [][ExpandNext]_vars

-----------------------------------------------------------------------------
(* Properties of the expansion *)

StrictlyShorter == \A i \in 2..Len(exTrail) : exTrail[i] < exTrail[i - 1]

SelfReferential ==
    \E i \in 1..Len(exMappings) : exMappings[i].type = exMappings[i].target

\* A mapped bytes value lies in its payload behind a tag and a length, so
\* the walk over a payload of n bytes is at most n \div 2 + 1 calls deep.
WalkBound == IF exTrail = <<>> THEN 0 ELSE exTrail[1] \div 2 + 1

(* C28: Expand terminates on every finite input message even when the
   nesting configuration declares self-referential mappings (type A.field
   -> type A, versioned or not): each nested re-expansion operates on a
   strictly shorter byte payload than the one that contained it, so the
   chain of re-expansions is no longer than the first payload allows and
   never exhausts the stack, and it ends with the result Decode returns. *)
C28_ExpandTerminates ==
    /\ StrictlyShorter
    /\ Len(exTrail) <= WalkBound
    /\ exPc # "overflow"
    /\ exPc = "done" => (exErr <=> ~exOut.ok)

C28_Witness ==
    /\ exPc = "done"
    /\ Len(exTrail) >= 4
    /\ SelfReferential
    /\ exOut.ok
    /\ \E i \in 1..Len(exMappings) : exMappings[i].versioned

-----------------------------------------------------------------------------
(* The recursion of the hasher over the nodes: encodeTransaction calls
   encodeNode for every root id, encodeExerciseNode and encodeRollbackNode
   call it for every child id.  The transactions have the nodes 0, 1 and 2,
   with children lists that share nodes and children lists that lead back
   to a node above. *)

\* the nested calls of encodeNode the goroutine stack holds
MaxWalkDepth == 6

WalkBodies0 ==
    {ExerciseBody(<<Id(<<"1">>), Id(<<"2">>)>>), ExerciseBody(<<Id(<<"1">>), Id(<<"1">>)>>),
     RollbackBody(<<Id(<<"0">>)>>), ExerciseBody(<<Id(<<"1">>)>>)}

WalkBodies1 ==
    {RollbackBody(<<Id(<<"2">>)>>), ExerciseBody(<<Id(<<"2">>), Id(<<"2">>)>>),
     ExerciseBody(<<Id(<<"0">>)>>), CreateBody}

WalkBodies2 ==
    {CreateBody, FetchBody, RollbackBody(<<Id(<<"1">>)>>), ExerciseBody(<<Id(<<"9">>)>>)}

WalkRoots ==
    {<<>>, <<Id(<<"0">>)>>, <<Id(<<"0">>), Id(<<"2">>)>>, <<Id(<<"2">>)>>,
     <<Id(<<"1">>), Id(<<"1">>)>>}

\* The ids encodeNode goes on to: the children of an Exercise or a Rollback.
Children(node) ==
    IF node.versioned # "v1" THEN <<>>
    ELSE CASE node.v1.type = "exercise" -> node.v1.exercise.children
           [] node.v1.type = "rollback" -> node.v1.rollback.children
           [] OTHER -> <<>>

\* A closure that keeps a visited set: it encodes a node once.
DescendsOnce(id, nodesMap, calls) == id \in DOMAIN nodesMap /\ calls[id] = 0

\* The closure of encodeTransaction, encodeExerciseNode and
\* encodeRollbackNode calls encodeNode for an id that nodesMap has, however
\* often the id was met before.
Descends(id, nodesMap, calls) == id \in DOMAIN nodesMap

WalkFrame(id, children) == [id |-> id, children |-> children, next |-> 1]

WalkInit ==
    /\ NotWalkIdle
    /\ \E roots \in WalkRoots, b0 \in WalkBodies0, b1 \in WalkBodies1, b2 \in WalkBodies2 :
          wkTx = Transaction(roots,
                             <<Node(Id(<<"0">>), "v1", b0), Node(Id(<<"1">>), "v1", b1),
                               Node(Id(<<"2">>), "v1", b2)>>,
                             <<>>)
    /\ wkMaps = [nodes |-> EmptyObj, seeds |-> EmptyObj]
    /\ wkStack = <<>>
    /\ wkCalls = EmptyObj
    /\ wkPc = "start"

\* buildNodesAndSeedsMap, then encodeTransaction starts on the roots.
WalkBuildMaps ==
    /\ wkPc = "start"
    /\ wkMaps' = buildNodesAndSeedsMap(wkTx)
    /\ wkStack' = <<WalkFrame(<<>>, wkTx.roots)>>
    /\ wkCalls' = [id \in DOMAIN wkMaps'.nodes |-> 0]
    /\ wkPc' = "walk"
    /\ UNCHANGED <<wkTx, notWalkVars>>

WalkTop == wkStack[Len(wkStack)]
WalkPending == WalkTop.next <= Len(WalkTop.children)
WalkChild == WalkTop.children[WalkTop.next]
WalkAdvanced(stack) ==
    [stack EXCEPT ![Len(stack)].next = stack[Len(stack)].next + 1]

\* The closure calls encodeNode for the next id; with no room left for the
\* call the stack is exhausted.
WalkCall ==
    /\ wkPc = "walk"
    /\ WalkPending
    /\ Descends(WalkChild, wkMaps.nodes, wkCalls)
    /\ IF Len(wkStack) < MaxWalkDepth
       THEN /\ wkStack' = Append(wkStack,
                                 WalkFrame(WalkChild, Children(wkMaps.nodes[WalkChild])))
            /\ wkCalls' = [wkCalls EXCEPT ![WalkChild] = @ + 1]
            /\ wkPc' = wkPc
       ELSE /\ wkPc' = "overflow"
            /\ UNCHANGED <<wkStack, wkCalls>>
    /\ UNCHANGED <<wkTx, wkMaps, notWalkVars>>

\* The closure returns without a call of encodeNode.
WalkSkip ==
    /\ wkPc = "walk"
    /\ WalkPending
    /\ ~Descends(WalkChild, wkMaps.nodes, wkCalls)
    /\ wkStack' = WalkAdvanced(wkStack)
    /\ UNCHANGED <<wkTx, wkMaps, wkCalls, wkPc, notWalkVars>>

\* encodeNode returns to the closure that called it; encodeTransaction
\* returns.
WalkReturn ==
    /\ wkPc = "walk"
    /\ ~WalkPending
    /\ IF Len(wkStack) > 1
       THEN /\ wkStack' = WalkAdvanced(SubSeq(wkStack, 1, Len(wkStack) - 1))
            /\ wkPc' = wkPc
       ELSE /\ wkStack' = <<>>
            /\ wkPc' = "done"
    /\ UNCHANGED <<wkTx, wkMaps, wkCalls, notWalkVars>>

WalkNext == WalkBuildMaps \/ WalkCall \/ WalkSkip \/ WalkReturn

SpecWalk == WalkInit /\ [][WalkNext]_vars

-----------------------------------------------------------------------------
(* Properties of the node walk *)

WalkIds == {wkTx.nodes[i].nodeId : i \in 1..Len(wkTx.nodes)}
WalkNodeOf(id) == lastNode(wkTx.nodes, id)
ChildIds(id) == {Children(WalkNodeOf(id))[i] : i \in 1..Len(Children(WalkNodeOf(id)))}

\* The ids reached from the ids of a set over at most n references.
RECURSIVE ReachedFrom(_, _)
ReachedFrom(ids, n) ==
    IF n = 0 THEN ids
    ELSE ReachedFrom(ids \cup UNION {ChildIds(id) : id \in ids \cap WalkIds}, n - 1)

\* The children references form no cycle.
Acyclic ==
    \A id \in WalkIds : id \notin ReachedFrom(ChildIds(id), Cardinality(WalkIds))

\* The references to the node id met on the way through the ids and all
\* that is below them, a node counted once for every way to it.
RECURSIVE References(_, _)
References(ids, id) ==
    IF ids = <<>> THEN 0
    ELSE (IF Head(ids) \in WalkIds
          THEN (IF Head(ids) = id THEN 1 ELSE 0) + References(Children(WalkNodeOf(Head(ids))), id)
          ELSE 0)
         + References(Tail(ids), id)

\* The calls in progress are calls for different nodes.
DistinctCalls ==
    \A i, j \in 2..Len(wkStack) : wkStack[i].id = wkStack[j].id => i = j

(* C29: HashPreparedTransaction terminates for every transaction in which
   the children references form no cycle: the calls of encodeNode in
   progress are then calls for different nodes, no more than there are
   nodes, and the stack is never exhausted.  The recursion keeps no visited
   set: a node referenced by several parents is encoded once per
   reference. *)
C29_AcyclicWalkEnds ==
    Acyclic =>
        /\ DistinctCalls
        /\ Len(wkStack) <= Cardinality(WalkIds) + 1
        /\ wkPc # "overflow"
        /\ wkPc = "done" =>
               \A id \in WalkIds : wkCalls[id] = References(wkTx.roots, id)

C29_Witness ==
    /\ wkPc = "done"
    /\ Acyclic
    /\ wkCalls[Id(<<"2">>)] = 3
    /\ wkCalls[Id(<<"1">>)] = 1

-----------------------------------------------------------------------------
(* Properties of the topology workflow *)

\* The algorithm name under which the holder of key k signs.
KeyAlgo(k) == IF KeyType(k) = "ed25519" THEN "ed25519" ELSE "ecdsa256"

\* verify has ended on a certificate that assemble wrote.
VerifiedAssembled == tPc = "done" /\ tKey # "" /\ tCert.exists

\* The run was the documented one: the .prep file is the one prepare
\* wrote, and assemble was given the fingerprint and the algorithm of the
\* key that signed the .hash file.
HonestRun ==
    /\ VerifiedAssembled
    /\ tPrep.data = tMem.v
    /\ tTrue.entries[1].signedBy = Fingerprint(PubKey(tKey))
    /\ tTrue.entries[1].algorithm = GetSignatureMetadata(KeyAlgo(tKey)).algorithm

\* C1: after prepare delegation --root with a public key (Ed25519 or ECDSA
\* P-256), signing the .hash file with the private key and assemble with
\* signed-by = the key's fingerprint, verify given that public key exits 0,
\* and verify given only unrelated public keys exits 1.
C1_MatchingKeyVerifies ==
    HonestRun => (IF tKey \in tKeys THEN tExit = 0 ELSE tExit = 1)

C1_Witness == HonestRun /\ tKey = "ec1" /\ tKey \in tKeys /\ tExit = 0

\* The .prep file was rewritten between prepare and assemble.
PrepChanged == tPrep.data # tMem.v

\* C2 as stated: the transaction field of the signed transaction holds the
\* .prep bytes whose purpose-11 multihash went to .hash, and after any
\* change of the .prep bytes between prepare and assemble, verify does not
\* end in Verified.
C2_AnyChangeRejected ==
    VerifiedAssembled =>
        /\ ~PrepChanged => tTrue.tx = tMem.v
        /\ PrepChanged => tExit # 0

\* C2, amended: the transaction field holds the hashed .prep bytes when
\* the file was left alone, and whenever verify ends in Verified the
\* transaction field holds exactly the bytes whose multihash was written
\* to .hash; a changed .prep file leads to Rejected whenever assemble
\* stores other bytes than the hashed ones.
C2_VerifiedIsHashed ==
    VerifiedAssembled =>
        /\ ~PrepChanged => tTrue.tx = tMem.v
        /\ tExit = 0 => (tTrue.tx = tMem.v /\ tHash.data = ComputeHash(tTrue.tx, 11))
        /\ tTrue.tx # tMem.v => tExit # 0

C2_Witness == VerifiedAssembled /\ PrepChanged /\ tTrue.tx # tMem.v /\ tExit = 1

\* Every signature entry of the signed transaction has a provided key with
\* its signed_by fingerprint and verifies on the transaction's multihash.
AllEntriesValid ==
    \A i \in 1..Len(tTrue.entries) :
        EntryValid(tKeys, ComputeHash(tTrue.tx, 11), tTrue.entries[i])

\* C3: on a signed transaction whose transaction field is set, verify
\* reports success (exit 0) if and only if, for every signature entry of
\* the signed transaction, the key with the entry's fingerprint was
\* provided and VerifySignature on the transaction multihash returned true
\* without error.
C3_SuccessIffAllValid ==
    (tPc = "done" /\ tTrue.tx # <<>>) => ((tExit = 0) <=> AllEntriesValid)

\* C4: no partial outputs: the .prep file is not on disk before the hash
\* has been computed, and no run of prepare delegation ends with a .prep
\* file without its .hash file.
C4_NoPartialOutputs ==
    /\ tPrep.exists => tHashMem # <<>>
    /\ tPc = "prepare_failed" => (tPrep.exists => tHash.exists)

\* verify has ended on a message it decoded without signature entries.
VerifiedUnsigned ==
    /\ tPc = "done"
    /\ LoadSigned(tCert.data).ok
    /\ LoadSigned(tCert.data).v.sigs = <<>>
    /\ LoadSigned(tCert.data).v.rawTx # <<>>

(* C30: topology verify on a signed transaction whose signatures list is
   empty and whose transaction bytes are non-empty reports success (exit 0)
   whatever public keys are supplied: the loop over the signatures never
   runs and the all-valid flag keeps its initial value true. *)
C30_NoSignatureIsSuccess ==
    VerifiedUnsigned => (tExit = 0 /\ tAllValid /\ tIdx = 1)

\* The file held a version-wrapped signed transaction without entries, and
\* none of the keys supplied is one of the signing keys.
C30_Witness ==
    /\ VerifiedUnsigned
    /\ tTrue.entries = <<>>
    /\ tLoaded.rawTx = tTrue.tx
    /\ tKeys = {"ed2"}
    /\ tExit = 0

-----------------------------------------------------------------------------
(* Properties of the hasher *)

(* C14: the structural hash is deterministic: two independent calls of
   HashPreparedTransaction on the same input end the same way and, when
   they return a hash, return the same hash; nothing the first call left
   behind changes the second. *)
C14_Deterministic ==
    (hPc = "done" /\ hCalls = 2) => hOut = hFirst

\* A second call on a transaction with a root node and a node seed returned
\* a hash.
C14_Witness ==
    /\ hPc = "done"
    /\ hCalls = 2
    /\ hOut.kind = "hash"
    /\ hIn.transaction.roots # <<>>
    /\ hMaps.nodes # EmptyObj
    /\ hMaps.seeds # EmptyObj

\* C5: HashPreparedTransaction never panics: on every PreparedTransaction
\* value (nil, absent transaction, absent metadata, a node without a
\* versioned body, an input contract without a Create body) the call ends
\* with a hash or with an error value.
C5_NeverPanics == hPc = "done" => hOut.kind \in {"hash", "error"}

-----------------------------------------------------------------------------
(* Properties of the codec specification *)

Resolved == ResolveAlias(cCfg, cType)
RootMapping(field) == FindMapping(cCfg.mappings, Resolved, field)

KindOf(type, field) ==
    LET idx == {i \in 1..Len(Desc(type)) : Desc(type)[i].name = field}
    IN  IF idx = {} THEN "none" ELSE Desc(type)[CHOOSE i \in idx : TRUE].kind

\* No scalar of the value is set to its default (0, or the empty string).
RECURSIVE Canonical(_)
Canonical(j) ==
    IF j.k = "num" THEN j.n # 0
    ELSE IF j.k \in {"str", "raw"} THEN j.b # <<>>
    ELSE IF j.k = "obj" THEN \A n \in DOMAIN j.o : Canonical(j.o[n])
    ELSE TRUE

\* An expanded value of the type: scalars in their JSON form, every mapped
\* bytes field a nested object that is an expanded value of its target.
RECURSIVE ValidExpanded(_, _, _)
ValidExpanded(ms, type, j) ==
    /\ j.k = "obj"
    /\ (DOMAIN j.o) \subseteq FieldNames(type)
    /\ \A i \in 1..Len(Desc(type)) :
          LET fd == Desc(type)[i]
              m == FindMapping(ms, type, fd.name)
          IN  fd.name \in DOMAIN j.o =>
                CASE fd.kind = "int" -> j.o[fd.name].k = "num"
                  [] fd.kind = "bytes" ->
                        IF HasMapping(m)
                        THEN FindMessage(Files, m.target)
                             /\ ValidExpanded(ms, m.target, j.o[fd.name])
                        ELSE j.o[fd.name].k = "str"
                  [] OTHER -> ValidExpanded(ms, fd.msg, j.o[fd.name])

\* The bytes fields of the root object that a mapping designates.
MappedRootFields ==
    {f \in DOMAIN cJson.o : KindOf(Resolved, f) = "bytes" /\ HasMapping(RootMapping(f))}

C6_Pre ==
    /\ cPc \in {"generated", "decoded"}
    /\ ~cCfg.nil
    /\ FindMessage(Files, Resolved)
    /\ ValidExpanded(cCfg.mappings, Resolved, cJson)
    /\ Canonical(cJson)
    /\ MappedRootFields # {}

(* C6: compress followed by expand is the identity on expanded JSON: under a
   configuration with nesting mappings, Generate of a value whose mapped
   bytes fields hold nested objects valid for their targets succeeds, and
   Decode of the result under the same configuration succeeds and yields
   those nested objects in the mapped fields again. *)
C6_RoundTrip ==
    C6_Pre =>
        /\ cBin.ok
        /\ cPc = "decoded" =>
              /\ cOut.ok
              /\ \A f \in MappedRootFields :
                    f \in DOMAIN cOut.v.o /\ cOut.v.o[f] = cJson.o[f]

\* Whether some bytes field present in the value, at any depth reached
\* through message fields, is designated by a mapping.
RECURSIVE HasMappedBytes(_, _, _)
HasMappedBytes(ms, type, j) ==
    /\ j.k = "obj"
    /\ \E i \in 1..Len(Desc(type)) :
          LET fd == Desc(type)[i]
          IN  /\ fd.name \in DOMAIN j.o
              /\ \/ fd.kind = "bytes" /\ HasMapping(FindMapping(ms, type, fd.name))
                 \/ fd.kind = "message" /\ HasMappedBytes(ms, fd.msg, j.o[fd.name])

\* j is valid for a type of the registry and a version is requested.
C8_Pre ==
    /\ cPc \in {"generated", "decoded"}
    /\ cVer.set
    /\ FindMessage(Files, Resolved)
    /\ MarshalJSON(Resolved, cJson).ok

FieldsPreserved ==
    /\ cBin.ok
    /\ cPc = "decoded" =>
          /\ cOut.ok
          /\ \A f \in DOMAIN cJson.o : f \in DOMAIN cOut.v.o /\ cOut.v.o[f] = cJson.o[f]

(* C8 as stated: for every message type, every JSON value valid for it and
   every version, Decode(versioned) of Generate(version) returns a value in
   which every field set in the input has the same value.  A field counts
   as set when it differs from its default, so the inputs are canonical. *)
C8_VersionedRoundTrip == (C8_Pre /\ Canonical(cJson)) => FieldsPreserved

(* C8: versioned round trip, for a canonical JSON value (no field set to its
   default) in which no bytes field is designated by a nesting mapping of
   the engine's configuration: Generate with a version succeeds, and Decode
   (versioned) of its output succeeds and returns every field of the input
   with the same value. *)
C8_VersionedRoundTripUnmapped ==
    (C8_Pre /\ Canonical(cJson) /\ ~HasMappedBytes(cCfg.mappings, Resolved, cJson))
        => FieldsPreserved

C8_Witness ==
    /\ C8_Pre
    /\ cPc = "decoded"
    /\ ~cCfg.nil /\ cCfg.mappings # <<>>
    /\ Canonical(cJson)
    /\ ~HasMappedBytes(cCfg.mappings, Resolved, cJson)
    /\ {"operation", "serial", "mapping"} \subseteq DOMAIN cJson.o
    /\ cOut.ok /\ cOut.v = cJson

\* The mappings of ms that designate a bytes field, in declaration order.
RECURSIVE BytesMappings(_)
BytesMappings(ms) ==
    IF ms = <<>> THEN <<>>
    ELSE (IF KindOf(Head(ms).type, Head(ms).field) = "bytes" THEN <<Head(ms)>> ELSE <<>>)
         \o BytesMappings(Tail(ms))

\* A mapping of the configuration designates a non-bytes field of the root
\* type, and that field is present in the input value.
C9_Pre ==
    /\ ~cCfg.nil
    /\ FindMessage(Files, Resolved)
    /\ cJson.k = "obj"
    /\ \E i \in 1..Len(cCfg.mappings) :
          LET m == cCfg.mappings[i]
          IN  /\ m.type = Resolved
              /\ m.field \in DOMAIN cJson.o
              /\ KindOf(Resolved, m.field) \in {"int", "message"}

(* C9 as stated: when a mapping designates a non-bytes field present in the
   value, compress (alone or inside Generate) and expand (inside Decode)
   return an error. *)
C9_NonBytesMappingErrors ==
    C9_Pre =>
        /\ cPc \in {"generated", "compressed"} => ~cBin.ok
        /\ cPc = "decoded" => ~cOut.ok

(* C9: a mapping that designates a non-bytes field is ignored without an
   error: compress, Generate and Decode return exactly what they return
   under the configuration from which the non-bytes mappings are removed,
   the designated field being handled by its declared kind. *)
C9_NonBytesMappingIgnored ==
    C9_Pre =>
        LET bytesOnly == BytesMappings(cCfg.mappings)
        IN  /\ cPc = "compressed" => cBin = CompressRecursively(bytesOnly, Resolved, cJson)
            /\ cPc = "generated" => cBin = Generate(Config(bytesOnly), cType, cJson, cVer)
            /\ cPc = "decoded" => cOut = Decode(Config(bytesOnly), cType, cBin.v, cVer.set)

C9_Witness ==
    /\ C9_Pre
    /\ cPc = "compressed"
    /\ RootMapping("serial").target = "Topo"
    /\ "serial" \in DOMAIN cJson.o
    /\ cBin.ok /\ cBin.v = cJson

\* The first mapping for Signed.transaction names a type the registry lacks.
MissingTarget ==
    /\ ~cCfg.nil
    /\ Resolved = "Signed"
    /\ HasMapping(RootMapping("transaction"))
    /\ ~FindMessage(Files, RootMapping("transaction").target)

\* The message Decode reads, and its plain JSON projection.
DecodePayload == IF cVer.set THEN UnmarshalWrapper(cBin.v).data ELSE cBin.v
Projection == UnmarshalJSON(Resolved, DecodePayload)

\* Compress met the mapped field in the value.
C10_CompressPre ==
    /\ MissingTarget
    /\ cPc = "compressed"
    /\ "transaction" \in DOMAIN cJson.o

\* Expand met the mapped field in the decoded message.
C10_ExpandPre ==
    /\ MissingTarget
    /\ cPc \in {"decoded", "decoded_bytes"}
    /\ cVer.set => UnmarshalWrapper(cBin.v).ok
    /\ Projection.ok
    /\ "transaction" \in DOMAIN Projection.v.o

(* C10 as stated: when a mapping applies to a present bytes field and its
   target type is absent from the registry, compress and expand fail with
   the target-type-not-found error, whatever the form of the field value. *)
C10_TargetNotFoundAlways ==
    /\ C10_CompressPre => cBin.err = "target_not_found"
    /\ C10_ExpandPre => cOut.err = "target_not_found"

(* C10: with a mapping on a present bytes field whose target type is absent
   from the registry: compress fails with target-type-not-found exactly when
   the value is a nested object; raw bytes and base64 text pass without the
   target being looked up (text that is not base64 fails as such); expand
   fails, with target-type-not-found unless the mapping is versioned and the
   field's bytes do not parse as an envelope, which fails first. *)
C10_TargetNotFound ==
    /\ C10_CompressPre =>
          LET val == cJson.o["transaction"]
          IN  /\ val.k = "obj" => cBin.err = "target_not_found"
              /\ val.k \in {"str", "raw"} => cBin.ok
              /\ val.k = "txt" => cBin.err = "base64"
    /\ C10_ExpandPre =>
          LET m == RootMapping("transaction")
              fb == Projection.v.o["transaction"].b
          IN  cOut.err = IF m.versioned /\ ~UnmarshalWrapper(fb).ok
                         THEN "wrapper" ELSE "target_not_found"

C10_Witness ==
    /\ C10_CompressPre
    /\ cJson.o["transaction"].k = "obj"
    /\ cBin.err = "target_not_found"

====
